---- MODULE Spec2Model ----
(***************************************************************************)
(* The credential pool (modules/key_manager.py, class KeyManager) and the  *)
(* generation client built on it (modules/llm_client.py, GeminiClient).    *)
(*                                                                         *)
(* A credential is identified with its secret value; the key table is      *)
(* taken to hold each value under one name, so name and value coincide.    *)
(* Time is the wall clock in whole seconds; a day string '%Y-%m-%d' is     *)
(* modelled by the day number it denotes (the formatting is injective).    *)
(* sha256 key hashes are modelled as the key itself (no collisions).       *)
(***************************************************************************)
EXTENDS Integers, Sequences, FiniteSets, TLC

\* ------------------------------------------------------------------ bounds
MaxTicks == 2
MaxCalls == 2
MaxTimedCalls == 6
MaxPairCalls == 2
MaxOutageCalls == 3
MaxThreadCalls == 4
MaxRowCalls == 4
MaxAdmin == 1
MaxFatal == 1
InitTime == 86370

\* ------------------------------------------------------- program constants
WINDOW == 60
PENALTY == 60
RPD_WAIT == 3600
BUSY_WAIT == 5
FATAL_WAIT == -1
INF_WAIT == 999999
DAY_SECONDS == 86400
DEFAULT_RPM == 5
DEFAULT_TPM == 32000
DEFAULT_RPD == 10000

Keys == {"k1", "k2", "k3"}
NoKey == "none"
Tiers == {"free", "paid"}
NoTier == "absent"
Workers == {"w1", "w2"}

\* The entries of MODELS_CONFIG the model keeps: a free config with rpm 5, and a
\* free and a paid config that share one internal model id.
MODELS_CONFIG ==
  ("gemini-3-flash-free" :>
      [model_id |-> "gemini-3-flash-preview", tier |-> "free",
       rpm |-> 5, tpm |-> 250000, rpd |-> 10000]) @@
  ("gemini-3-pro-free" :>
      [model_id |-> "gemini-3-pro-preview", tier |-> "free",
       rpm |-> 2, tpm |-> 32000, rpd |-> 50]) @@
  ("gemini-3-pro-paid" :>
      [model_id |-> "gemini-3-pro-preview", tier |-> "paid",
       rpm |-> 25, tpm |-> 1000000, rpd |-> 250])

\* config ids a caller may pass: the table's, and one the table does not hold
ConfigIds == DOMAIN MODELS_CONFIG \cup {"no-such-config"}

\* get_key's resolution of a config id (unknown ids get the safe defaults)
ResolveConfig(config_id) ==
  IF config_id \in DOMAIN MODELS_CONFIG
    THEN LET c == MODELS_CONFIG[config_id]
         IN  [model_id |-> c.model_id,
              tier |-> IF c.tier \in {"paid", "free"} THEN c.tier ELSE "free",
              rpm |-> c.rpm, tpm |-> c.tpm, rpd |-> c.rpd]
    ELSE [model_id |-> "unknown", tier |-> "free",
          rpm |-> DEFAULT_RPM, tpm |-> DEFAULT_TPM, rpd |-> DEFAULT_RPD]

ModelIds == {ResolveConfig(c).model_id : c \in ConfigIds}

\* estimated request sizes a caller may present, and output sizes of a response
EstChoices == {10, 32000, 32001}
OutChoices == {1}

Min2(a, b) == IF a <= b THEN a ELSE b
Max2(a, b) == IF a >= b THEN a ELSE b
SetMin(S) == CHOOSE x \in S : \A y \in S : x <= y

\* time.strftime('%Y-%m-%d', time.gmtime(now)), as a day number
TodayStr(t) == t \div DAY_SECONDS

\* a row of gemini_model_usage; NoRow stands for "no row for (key, model)"
NoRow == [present |-> FALSE, rpm_requests |-> 0, rpm_window_start |-> 0,
          tpm_tokens |-> 0, rpd_requests |-> 0, last_used_day |-> -1]

VARIABLES
  key_metadata,   \* KeyManager.key_metadata, loaded from table gemini_api_keys:
                  \* key -> tier, NoTier when the table has no such key
  available_keys, \* KeyManager.available_keys, the rotation (a deque)
  cooldown_keys,  \* KeyManager.cooldown_keys, an insertion-ordered dict: a sequence
                  \* of [key, t] entries, t the release time
  dead_keys,      \* KeyManager.dead_keys
  usage,          \* table gemini_model_usage: <<key, model_id>> -> row
  now,            \* time.time()
  wk,             \* per worker: where it is in generate_content, and its locals
  ticks, calls,   \* how often the clock advanced / generate_content was entered
  admins,         \* how often the key table was edited
  th,             \* per worker: the frame of a get_key call run step by step
  ret,            \* what the step just taken returned to its caller
  checked_out,    \* key -> checkouts by get_key not yet followed by report_usage
                  \* or report_failure (counted up to 2)
  fatal_called,   \* keys report_fatal_error was called for (until the table row
                  \* of the key itself is edited)
  failed_at,      \* key -> time of the last report_failure for it, -1 when none
  flat_items,     \* run_extraction: the token estimates of the items to chunk
  chunks,         \* run_extraction: what chunk_data returned, <<>> before the call
  stacks,         \* per chunk: the call stack of its extract_chunk_worker_cli
                  \* thread, innermost invocation last
  futures,        \* per chunk: what its future holds
  req,            \* the request a worker made last, and how it was answered
  last_result,    \* per chunk: what the latest step of its thread returned, when
                  \* that step was the return of an invocation
  all_extracted_items,  \* run_extraction: the aggregate
  collected,      \* the chunks whose future.result() the orchestrator has taken
  pure_in,        \* a helper function called on its own: <<>> or <<its arguments>>
  pure_out        \* <<>> until it has returned, then <<what it returned>>

poolvars == <<key_metadata, available_keys, cooldown_keys, dead_keys, usage,
              now, wk, th, ticks, calls, admins, ret, checked_out, fatal_called,
              failed_at>>

jobvars == <<flat_items, chunks, stacks, futures, req, last_result,
             all_extracted_items, collected, pure_in, pure_out>>

vars == <<key_metadata, available_keys, cooldown_keys, dead_keys, usage,
          now, wk, th, ticks, calls, admins, ret, checked_out, fatal_called, failed_at,
          flat_items, chunks, stacks, futures, req, last_result,
          all_extracted_items, collected, pure_in, pure_out>>

\* ------------------------------------------------ the cooldown map (a dict)
CdKeys(cd) == {cd[i].key : i \in 1..Len(cd)}
CdGet(cd, k) == (CHOOSE i \in 1..Len(cd) : cd[i].key = k)
CdTime(cd, k) == cd[CdGet(cd, k)].t
\* del cd[k]
CdDel(cd, k) == SelectSeq(cd, LAMBDA e : e.key # k)
\* cd[k] = t : an existing entry keeps its place, a new one goes last
CdSet(cd, k, t) ==
  IF k \in CdKeys(cd)
    THEN [i \in 1..Len(cd) |-> IF cd[i].key = k THEN [key |-> k, t |-> t] ELSE cd[i]]
    ELSE Append(cd, [key |-> k, t |-> t])

SeqSet(s) == {s[i] : i \in 1..Len(s)}

\* The reclaim without the test on the release time: every key of the cooldown
\* map goes back to the rotation.
ReclaimKeysAll(avail, cd, t) ==
  [avail |-> avail \o [i \in 1..Len(cd) |-> cd[i].key], cd |-> <<>>]

\* ---------------------------------------------------------- _reclaim_keys
\* released = [k for k, t in cooldown_keys.items() if current_time >= t]
Released(cd, t) ==
  LET due == SelectSeq(cd, LAMBDA e : t >= e.t)
  IN  [i \in 1..Len(due) |-> due[i].key]

ReclaimKeys(avail, cd, t) ==
  [avail |-> avail \o Released(cd, t),
   cd    |-> SelectSeq(cd, LAMBDA e : ~(t >= e.t))]

\* The limit check admitting a request when the count equals the rpm limit.
CheckKeyLimitsOneMore(row, rpm_limit, tpm_limit, rpd_limit, estimated_tokens, t, readOk) ==
  IF ~readOk THEN 0
  ELSE IF ~row.present THEN 0
  ELSE IF row.last_used_day = TodayStr(t) /\ row.rpd_requests >= rpd_limit
    THEN RPD_WAIT
  ELSE IF t - row.rpm_window_start >= WINDOW THEN 0
  ELSE IF row.rpm_requests > rpm_limit
    THEN Max2(1, WINDOW - (t - row.rpm_window_start))
  ELSE IF row.tpm_tokens + estimated_tokens > tpm_limit
    THEN Max2(1, WINDOW - (t - row.rpm_window_start))
  ELSE 0

\* The limit check with the minute window tested before the daily count: an
\* expired window admits the key.
CheckKeyLimitsWindowFirst(row, rpm_limit, tpm_limit, rpd_limit, estimated_tokens, t, readOk) ==
  IF ~readOk THEN 0
  ELSE IF ~row.present THEN 0
  ELSE IF t - row.rpm_window_start >= WINDOW THEN 0
  ELSE IF row.last_used_day = TodayStr(t) /\ row.rpd_requests >= rpd_limit
    THEN RPD_WAIT
  ELSE IF row.rpm_requests >= rpm_limit
    THEN Max2(1, WINDOW - (t - row.rpm_window_start))
  ELSE IF row.tpm_tokens + estimated_tokens > tpm_limit
    THEN Max2(1, WINDOW - (t - row.rpm_window_start))
  ELSE 0

\* ------------------------------------------------------- _check_key_limits
\* Seconds to wait, 0 when ready.  readOk = FALSE is the SELECT raising, which
\* the except clause turns into 0.
CheckKeyLimits(row, rpm_limit, tpm_limit, rpd_limit, estimated_tokens, t, readOk) ==
  IF ~readOk THEN 0
  ELSE IF ~row.present THEN 0
  ELSE IF row.last_used_day = TodayStr(t) /\ row.rpd_requests >= rpd_limit
    THEN RPD_WAIT
  ELSE IF t - row.rpm_window_start >= WINDOW THEN 0
  ELSE IF row.rpm_requests >= rpm_limit
    THEN Max2(1, WINDOW - (t - row.rpm_window_start))
  ELSE IF row.tpm_tokens + estimated_tokens > tpm_limit
    THEN Max2(1, WINDOW - (t - row.rpm_window_start))
  ELSE 0

\* ----------------------------------------------------------------- get_key
\* The tier test with its first half only: a paid config passes over the keys
\* that are not paid, a free config takes any key.
TierMismatchPaidOnly(required_tier, key_tier) ==
  required_tier = "paid" /\ key_tier # "paid"

\* The tier test of the scan: TRUE when the key is passed over.
TierMismatch(required_tier, key_tier) ==
  \/ required_tier = "paid" /\ key_tier # "paid"
  \/ required_tier = "free" /\ key_tier # "free"

\* The fatal test with the limit itself counted as too large.
IsFatalAtLimit(estimated_tokens, tpm_limit) == estimated_tokens >= tpm_limit

\* The fatal test: the request can never fit the model.
IsFatal(estimated_tokens, tpm_limit) == estimated_tokens > tpm_limit

\* The loop iteration with usage kept per key: the limits are checked on the
\* key's row of one fixed model, whatever the model asked for.
LoopBodySharedRow(S, C) ==
  LET key_val == Head(S.avail)
      rest    == Tail(S.avail)
      skip    == [S EXCEPT !.avail = rest, !.checked = S.checked + 1,
                           !.rotation = Append(S.rotation, key_val)]
      inCd    == key_val \in CdKeys(S.cd)
      cd2     == IF inCd THEN CdDel(S.cd, key_val) ELSE S.cd
      wait    == CheckKeyLimits(C.usg[<<key_val, "gemini-3-pro-preview">>], C.cfg.rpm,
                                C.cfg.tpm, C.cfg.rpd, C.est, C.t,
                                C.readOk)
  IN  IF TierMismatch(C.cfg.tier, C.meta[key_val]) THEN skip
      ELSE IF key_val \in C.dead THEN skip
      ELSE IF inCd /\ C.t < CdTime(S.cd, key_val)
        THEN [skip EXCEPT !.best = Min2(S.best, CdTime(S.cd, key_val) - C.t)]
      ELSE IF wait = 0
        THEN [S EXCEPT !.avail = S.rotation \o rest, !.checked = S.checked + 1,
                       !.cd = cd2, !.rotation = <<>>, !.key = key_val]
      ELSE [skip EXCEPT !.cd = cd2, !.best = Min2(S.best, wait)]

\* The loop iteration without the checkout: the admitted key is answered but
\* stays in the rotation, at its tail.
LoopBodyKeep(S, C) ==
  LET key_val == Head(S.avail)
      rest    == Tail(S.avail)
      skip    == [S EXCEPT !.avail = rest, !.checked = S.checked + 1,
                           !.rotation = Append(S.rotation, key_val)]
      inCd    == key_val \in CdKeys(S.cd)
      cd2     == IF inCd THEN CdDel(S.cd, key_val) ELSE S.cd
      wait    == CheckKeyLimits(C.usg[<<key_val, C.cfg.model_id>>], C.cfg.rpm,
                                C.cfg.tpm, C.cfg.rpd, C.est, C.t,
                                C.readOk)
  IN  IF TierMismatch(C.cfg.tier, C.meta[key_val]) THEN skip
      ELSE IF key_val \in C.dead THEN skip
      ELSE IF inCd /\ C.t < CdTime(S.cd, key_val)
        THEN [skip EXCEPT !.best = Min2(S.best, CdTime(S.cd, key_val) - C.t)]
      ELSE IF wait = 0
        THEN [S EXCEPT !.avail = (S.rotation \o rest) \o <<key_val>>,
                       !.checked = S.checked + 1,
                       !.cd = cd2, !.rotation = <<>>, !.key = key_val]
      ELSE [skip EXCEPT !.cd = cd2, !.best = Min2(S.best, wait)]

\* One iteration of the while loop.  S holds what the loop works on:
\*   avail, cd (the shared deque and cooldown map), rotation, checked_count,
\*   limit_checked_count, best_wait, and key, the admitted key (NoKey so far).
\* C is the call's context: cfg, est, t, meta, dead, usg, and readOk, whether the
\* usage table can be read during this call.
LoopBody(S, C) ==
  LET key_val == Head(S.avail)
      rest    == Tail(S.avail)
      skip    == [S EXCEPT !.avail = rest, !.checked = S.checked + 1,
                           !.rotation = Append(S.rotation, key_val)]
      inCd    == key_val \in CdKeys(S.cd)
      cd2     == IF inCd THEN CdDel(S.cd, key_val) ELSE S.cd
      wait    == CheckKeyLimits(C.usg[<<key_val, C.cfg.model_id>>], C.cfg.rpm,
                                C.cfg.tpm, C.cfg.rpd, C.est, C.t,
                                C.readOk)
  IN  IF TierMismatch(C.cfg.tier, C.meta[key_val]) THEN skip
      ELSE IF key_val \in C.dead THEN skip
      ELSE IF inCd /\ C.t < CdTime(S.cd, key_val)
        THEN [skip EXCEPT !.best = Min2(S.best, CdTime(S.cd, key_val) - C.t)]
      ELSE IF wait = 0
        THEN [S EXCEPT !.avail = S.rotation \o rest, !.checked = S.checked + 1,
                       !.cd = cd2, !.rotation = <<>>, !.key = key_val]
      ELSE [skip EXCEPT !.cd = cd2, !.best = Min2(S.best, wait)]

\* while self.available_keys and checked_count < limit_checked_count
LoopTest(S) == S.avail # <<>> /\ S.checked < S.limit

RECURSIVE ScanLoop(_, _)
ScanLoop(S, C) ==
  IF S.key # NoKey \/ ~LoopTest(S) THEN S
  ELSE ScanLoop(LoopBody(S, C), C)

\* What get_key answers when the loop ends without a key.
NoKeyWait(S, C) ==
  IF S.best = INF_WAIT
    THEN LET matching == {k \in Keys : C.meta[k] = C.cfg.tier /\ k \notin C.dead}
             waits == {S.cd[i].t - C.t : i \in
                         {j \in 1..Len(S.cd) : S.cd[j].key \in matching /\ C.t < S.cd[j].t}}
         IN  IF matching = {} THEN 0
             ELSE IF waits # {} THEN SetMin(waits)
             ELSE BUSY_WAIT
    ELSE S.best

\* The loop's start: rotation = deque(), best_wait = inf, checked_count = 0,
\* limit_checked_count = len(available_keys).
LoopStart(avail, cd) ==
  [avail |-> avail, cd |-> cd, rotation |-> <<>>, checked |-> 0,
   limit |-> Len(avail), best |-> INF_WAIT, key |-> NoKey]

\* get_key as one call: the answer (key, wait, model_id) and the rotation and
\* cooldown map it leaves.
GetKey(avail, cd, C) ==
  IF IsFatal(C.est, C.cfg.tpm)
    THEN LET r == ReclaimKeys(avail, cd, C.t)
         IN  [key |-> NoKey, wait |-> FATAL_WAIT, model_id |-> C.cfg.model_id,
              avail |-> r.avail, cd |-> r.cd]
    ELSE LET r == ReclaimKeys(avail, cd, C.t)
             S == ScanLoop(LoopStart(r.avail, r.cd), C)
         IN  IF S.key # NoKey
               THEN [key |-> S.key, wait |-> 0, model_id |-> C.cfg.model_id,
                     avail |-> S.avail, cd |-> S.cd]
               ELSE [key |-> NoKey, wait |-> NoKeyWait(S, C),
                     model_id |-> C.cfg.model_id,
                     avail |-> S.avail \o S.rotation, cd |-> S.cd]

\* ------------------------------------------------------------ report_usage
\* The row report_usage writes for (key, model_id).
UsageAfter(row, tokens, t) ==
  IF row.present
    THEN LET fresh == t - row.rpm_window_start >= WINDOW
         IN  [present |-> TRUE,
              rpm_requests |-> IF fresh THEN 1 ELSE row.rpm_requests + 1,
              rpm_window_start |-> IF fresh THEN t ELSE row.rpm_window_start,
              tpm_tokens |-> IF fresh THEN tokens ELSE row.tpm_tokens + tokens,
              rpd_requests |-> IF row.last_used_day # TodayStr(t) THEN 1
                               ELSE row.rpd_requests + 1,
              last_used_day |-> TodayStr(t)]
    ELSE [present |-> TRUE, rpm_requests |-> 1, rpm_window_start |-> t,
          tpm_tokens |-> tokens, rpd_requests |-> 1, last_used_day |-> TodayStr(t)]

\* ------------------------------------------------------------ the workers
\* A worker is a thread calling GeminiClient.generate_content:
\*   idle - outside the call;
\*   sent - inside it: it holds a key (key_value) for model_id, its request of
\*          est_tokens estimated tokens is in flight.
Idle == [pc |-> "idle", est |-> 0, key |-> NoKey, model |-> "-"]

\* The frame of a get_key call run step by step (pc "out": no such call).
NoFrame == [pc |-> "out", config |-> "-", est |-> 0, released |-> <<>>,
            rotation |-> <<>>, checked |-> 0, limit |-> 0, best |-> INF_WAIT]

\* ret is what the step just taken returned to its caller: the worker, the
\* arguments of its generate_content call, the key and wait get_key gave it,
\* and the outcome generate_content reported.  A step that returns nothing
\* leaves NoRet.
NoRet == [w |-> "-", config |-> "-", est |-> 0, key |-> NoKey, model |-> "-",
          wait |-> 0, outcome |-> "-"]

\* The context of a get_key call made now.
Ctx(config_id, est, readOk) ==
  [cfg |-> ResolveConfig(config_id), est |-> est, t |-> now, readOk |-> readOk,
   meta |-> key_metadata, dead |-> dead_keys, usg |-> usage]

\* The reading of get_key's answer without the test on a positive wait.
OutcomeNoWaitTest(r) ==
  IF r.wait = FATAL_WAIT THEN "too_large"
  ELSE IF r.key = NoKey THEN "no_keys"
  ELSE "send"

\* generate_content's reading of get_key's answer (llm_client.py 33-56)
Outcome(r) ==
  IF r.wait = FATAL_WAIT THEN "too_large"
  ELSE IF r.wait > 0 THEN "rate_limited"
  ELSE IF r.key = NoKey THEN "no_keys"
  ELSE "send"

\* The count of outstanding checkouts after get_key returned key / after a
\* report for key.
CheckOut(co, key) ==
  IF key = NoKey THEN co ELSE [co EXCEPT ![key] = Min2(2, co[key] + 1)]
CheckIn(co, key) == [co EXCEPT ![key] = Max2(0, co[key] - 1)]

\* generate_content up to the point where the request is sent, or the early return.
Call(w, config_id, est, readOk) ==
  /\ wk[w].pc = "idle"
  /\ LET r == GetKey(available_keys, cooldown_keys, Ctx(config_id, est, readOk))
         o == Outcome(r)
     IN  /\ available_keys' = r.avail
         /\ cooldown_keys' = r.cd
         /\ wk' = [wk EXCEPT ![w] =
                     IF o = "send"
                       THEN [pc |-> "sent", est |-> est, key |-> r.key,
                             model |-> r.model_id]
                       ELSE Idle]
         /\ ret' = [w |-> w, config |-> config_id, est |-> est, key |-> r.key,
                    model |-> r.model_id, wait |-> r.wait, outcome |-> o]
         /\ checked_out' = CheckOut(checked_out, r.key)
  /\ calls' = calls + 1
  /\ UNCHANGED <<key_metadata, dead_keys, usage, now, th, ticks, admins, fatal_called,
                 failed_at>>
  /\ UNCHANGED jobvars

\* What generate_content returns once the request was sent.
Answer(w, o) ==
  [w |-> w, config |-> "-", est |-> wk[w].est, key |-> wk[w].key,
   model |-> wk[w].model, wait |-> 0, outcome |-> o]

\* report_usage(key, tokens, model_id): the row is read and written and the
\* key goes back to the rotation.  readOk / writeOk: whether the SELECT and the
\* raw-HTTP write go through; when one raises, the except clause logs it and
\* the call ends there.
ReportUsage(key, tokens, model_id, readOk, writeOk) ==
  IF readOk /\ writeOk
    THEN /\ usage' = [usage EXCEPT ![<<key, model_id>>] =
                        UsageAfter(usage[<<key, model_id>>], tokens, now)]
         /\ available_keys' = Append(available_keys, key)
    ELSE UNCHANGED <<usage, available_keys>>

\* HTTP 200 with text: report_usage(key, est + out, model_id), then success.
\* A key the table no longer holds has no hash: report_usage raises KeyError,
\* which generate_content answers as a parse failure.
Http200Text(w, out, readOk, writeOk) ==
  /\ wk[w].pc = "sent"
  /\ IF key_metadata[wk[w].key] = NoTier
       THEN /\ ret' = Answer(w, "parse_error")
            /\ UNCHANGED <<usage, available_keys>>
       ELSE /\ ret' = Answer(w, "success")
            /\ ReportUsage(wk[w].key, wk[w].est + out, wk[w].model, readOk, writeOk)
  /\ checked_out' = CheckIn(checked_out, wk[w].key)
  /\ wk' = [wk EXCEPT ![w] = Idle]
  /\ UNCHANGED <<key_metadata, cooldown_keys, dead_keys, now, th, ticks, calls, admins,
                 fatal_called, failed_at>>
  /\ UNCHANGED jobvars

\* report_usage takes no lock and talks to the store twice.  Cut at the
\* store: first key_hash, now, today_str and the SELECT of the row ...
UsageSelectReleasing(w, out) ==
  /\ wk[w].pc = "sent"
  /\ key_metadata[wk[w].key] # NoTier
  /\ wk' = [wk EXCEPT ![w] = [pc |-> "selected", est |-> wk[w].est, key |-> wk[w].key,
                              model |-> wk[w].model, tokens |-> wk[w].est + out,
                              row |-> usage[<<wk[w].key, wk[w].model>>], t |-> now]]
  /\ available_keys' = Append(available_keys, wk[w].key)
  /\ ret' = NoRet
  /\ UNCHANGED <<key_metadata, cooldown_keys, dead_keys, usage, now, th,
                 ticks, calls, admins, checked_out, fatal_called, failed_at>>
  /\ UNCHANGED jobvars

UsageSelect(w, out) ==
  /\ wk[w].pc = "sent"
  /\ key_metadata[wk[w].key] # NoTier
  /\ wk' = [wk EXCEPT ![w] = [pc |-> "selected", est |-> wk[w].est, key |-> wk[w].key,
                              model |-> wk[w].model, tokens |-> wk[w].est + out,
                              row |-> usage[<<wk[w].key, wk[w].model>>], t |-> now]]
  /\ ret' = NoRet
  /\ UNCHANGED <<key_metadata, available_keys, cooldown_keys, dead_keys, usage, now, th,
                 ticks, calls, admins, checked_out, fatal_called, failed_at>>
  /\ UNCHANGED jobvars

\* ... then the UPDATE (or INSERT) computed from the row that was read, and
\* self.available_keys.append(key); generate_content returns success.
UsageWrite(w) ==
  /\ wk[w].pc = "selected"
  /\ usage' = [usage EXCEPT ![<<wk[w].key, wk[w].model>>] =
                 UsageAfter(wk[w].row, wk[w].tokens, wk[w].t)]
  /\ available_keys' = Append(available_keys, wk[w].key)
  /\ ret' = Answer(w, "success")
  /\ checked_out' = CheckIn(checked_out, wk[w].key)
  /\ wk' = [wk EXCEPT ![w] = Idle]
  /\ UNCHANGED <<key_metadata, cooldown_keys, dead_keys, now, th, ticks, calls, admins,
                 fatal_called, failed_at>>
  /\ UNCHANGED jobvars

\* report_failure that keeps the key in the rotation while it serves its penalty.
ReportFailureKeeps(key, is_info_error) ==
  /\ available_keys' = Append(available_keys, key)
  /\ cooldown_keys' = IF is_info_error THEN cooldown_keys
                      ELSE CdSet(cooldown_keys, key, now + PENALTY)

\* report_failure(key, is_info_error)
ReportFailure(key, is_info_error) ==
  IF is_info_error
    THEN /\ available_keys' = Append(available_keys, key)
         /\ UNCHANGED cooldown_keys
    ELSE /\ cooldown_keys' = CdSet(cooldown_keys, key, now + PENALTY)
         /\ UNCHANGED available_keys

\* HTTP 429: report_failure(key), the key goes to the penalty box.
Http429(w) ==
  /\ wk[w].pc = "sent"
  /\ ReportFailure(wk[w].key, FALSE)
  /\ failed_at' = [failed_at EXCEPT ![wk[w].key] = now]
  /\ ret' = Answer(w, "http_429")
  /\ checked_out' = CheckIn(checked_out, wk[w].key)
  /\ wk' = [wk EXCEPT ![w] = Idle]
  /\ UNCHANGED <<key_metadata, dead_keys, usage, now, th, ticks, calls,
                 admins, fatal_called>>
  /\ UNCHANGED jobvars

\* The outcomes that make no call on the KeyManager: HTTP 200 without usable
\* content, any other status, a transport exception.
SilentOutcomes == {"no_content", "api_error", "transport_error"}

\* The silent return with the key sent to the penalty box, as HTTP 429 does.
HttpOtherPenalised(w, o) ==
  /\ wk[w].pc = "sent"
  /\ ReportFailure(wk[w].key, FALSE)
  /\ ret' = Answer(w, o)
  /\ wk' = [wk EXCEPT ![w] = Idle]
  /\ UNCHANGED <<key_metadata, dead_keys, usage, now,
                 th, ticks, calls, admins, checked_out, fatal_called, failed_at>>
  /\ UNCHANGED jobvars

HttpOther(w, o) ==
  /\ wk[w].pc = "sent"
  /\ ret' = Answer(w, o)
  /\ wk' = [wk EXCEPT ![w] = Idle]
  /\ UNCHANGED <<key_metadata, available_keys, cooldown_keys, dead_keys, usage, now,
                 th, ticks, calls, admins, checked_out, fatal_called, failed_at>>
  /\ UNCHANGED jobvars

\* ------------------------------------------- get_key, one step at a time
\* The KeyManager takes no lock: the worker threads run get_key concurrently
\* and the interpreter may switch threads between any two of its operations
\* on the shared deque and dict.  The steps below cut get_key at those places.
ThreadFrame ==
  /\ UNCHANGED <<key_metadata, dead_keys, usage, now, ticks, admins, fatal_called,
                 failed_at>>
  /\ UNCHANGED jobvars

\* The call ends: with a key the worker goes on to send its request, without
\* one (or on an exception, which generate_content does not catch) it is out.
Leave(w, key, wait, o) ==
  /\ th' = [th EXCEPT ![w] = NoFrame]
  /\ wk' = [wk EXCEPT ![w] =
              IF o = "send"
                THEN [pc |-> "sent", est |-> th[w].est, key |-> key,
                      model |-> ResolveConfig(th[w].config).model_id]
                ELSE Idle]
  /\ ret' = [w |-> w, config |-> th[w].config, est |-> th[w].est, key |-> key,
             model |-> ResolveConfig(th[w].config).model_id, wait |-> wait,
             outcome |-> o]
  /\ checked_out' = CheckOut(checked_out, key)

Stay(w, frame) ==
  /\ th' = [th EXCEPT ![w] = frame]
  /\ ret' = NoRet
  /\ UNCHANGED <<wk, checked_out>>

\* generate_content calls get_key; _reclaim_keys lists the keys whose cooldown
\* is over.
TEnter(w, config_id, est) ==
  /\ wk[w].pc = "idle" /\ th[w].pc = "out"
  /\ Stay(w, [NoFrame EXCEPT !.pc = "reclaim", !.config = config_id, !.est = est,
                             !.released = Released(cooldown_keys, now)])
  /\ calls' = calls + 1
  /\ UNCHANGED <<available_keys, cooldown_keys>>
  /\ ThreadFrame

\* for key in released: del self.cooldown_keys[key]; self.available_keys.append(key)
\* The del raises KeyError when another thread has reclaimed the key meanwhile.
TReclaim(w) ==
  /\ th[w].pc = "reclaim" /\ th[w].released # <<>>
  /\ LET key == Head(th[w].released)
     IN  IF key \in CdKeys(cooldown_keys)
           THEN /\ cooldown_keys' = CdDel(cooldown_keys, key)
                /\ available_keys' = Append(available_keys, key)
                /\ Stay(w, [th[w] EXCEPT !.released = Tail(th[w].released)])
           ELSE /\ Leave(w, NoKey, 0, "exception")
                /\ UNCHANGED <<available_keys, cooldown_keys>>
  /\ UNCHANGED calls
  /\ ThreadFrame

\* The fatal test, then limit_checked_count = len(self.available_keys).
TStart(w) ==
  /\ th[w].pc = "reclaim" /\ th[w].released = <<>>
  /\ IF IsFatal(th[w].est, ResolveConfig(th[w].config).tpm)
       THEN Leave(w, NoKey, FATAL_WAIT, "too_large")
       ELSE Stay(w, [th[w] EXCEPT !.pc = "test", !.limit = Len(available_keys)])
  /\ UNCHANGED <<available_keys, cooldown_keys, calls>>
  /\ ThreadFrame

\* while self.available_keys and checked_count < limit_checked_count
TTest(w) ==
  /\ th[w].pc = "test"
  /\ Stay(w, [th[w] EXCEPT !.pc =
                IF available_keys # <<>> /\ th[w].checked < th[w].limit
                  THEN "pop" ELSE "finish"])
  /\ UNCHANGED <<available_keys, cooldown_keys, calls>>
  /\ ThreadFrame

\* key_val = self.available_keys.popleft() and the rest of the loop body.
\* popleft raises IndexError when another thread emptied the deque after the
\* test; the keys in this thread's rotation are then never put back.
TPop(w, readOk) ==
  /\ th[w].pc = "pop"
  /\ IF available_keys = <<>>
       THEN /\ Leave(w, NoKey, 0, "exception")
            /\ UNCHANGED <<available_keys, cooldown_keys>>
       ELSE LET S == LoopBody([avail |-> available_keys, cd |-> cooldown_keys,
                               rotation |-> th[w].rotation, checked |-> th[w].checked,
                               limit |-> th[w].limit, best |-> th[w].best,
                               key |-> NoKey],
                              Ctx(th[w].config, th[w].est, readOk))
            IN  /\ available_keys' = S.avail
                /\ cooldown_keys' = S.cd
                /\ IF S.key # NoKey
                     THEN Leave(w, S.key, 0, "send")
                     ELSE Stay(w, [th[w] EXCEPT !.pc = "test", !.rotation = S.rotation,
                                                !.checked = S.checked, !.best = S.best])
  /\ UNCHANGED calls
  /\ ThreadFrame

\* self.available_keys.extend(rotation) and the answer without a key.
TFinish(w) ==
  /\ th[w].pc = "finish"
  /\ available_keys' = available_keys \o th[w].rotation
  /\ LET wait == NoKeyWait([cd |-> cooldown_keys, best |-> th[w].best],
                           Ctx(th[w].config, th[w].est, TRUE))
     IN  Leave(w, NoKey, wait, IF wait > 0 THEN "rate_limited" ELSE "no_keys")
  /\ UNCHANGED <<cooldown_keys, calls>>
  /\ ThreadFrame

\* ---------------------------------------------------------------- the clock
TickSteps == {1, 59}

Tick(d) ==
  /\ ticks < MaxTicks
  /\ now' = now + d
  /\ ticks' = ticks + 1
  /\ ret' = NoRet
  /\ UNCHANGED <<key_metadata, available_keys, cooldown_keys, dead_keys, usage, wk,
                 th, calls, admins, checked_out, fatal_called, failed_at>>
  /\ UNCHANGED jobvars

\* ------------------------------------------------------- report_fatal_error
ReportFatalError(k) ==
  /\ k \notin fatal_called
  /\ Cardinality(fatal_called) < MaxFatal
  /\ dead_keys' = dead_keys \cup {k}
  /\ fatal_called' = fatal_called \cup {k}
  /\ ret' = NoRet
  /\ UNCHANGED <<key_metadata, available_keys, cooldown_keys, usage, now, wk, th,
                 ticks, calls, admins, checked_out, failed_at>>
  /\ UNCHANGED jobvars

\* -------------------------------------------- the key table and its refresh
Perms(S) == {s \in [1..Cardinality(S) -> S] : \A i, j \in 1..Cardinality(S) :
                                                  i # j => s[i] # s[j]}

\* _refresh_keys_from_db: the table is loaded, the pool state is rebuilt, the
\* rotation is every loaded key in a shuffled order.
RefreshKeysFromDb(table, order) ==
  /\ order \in Perms({k \in Keys : table[k] # NoTier})
  /\ key_metadata' = table
  /\ available_keys' = order
  /\ cooldown_keys' = <<>>
  /\ dead_keys' = {}

AdminFrame(k) ==
  /\ admins < MaxAdmin
  /\ fatal_called' = fatal_called \ {k}
  /\ admins' = admins + 1
  /\ ret' = NoRet
  /\ UNCHANGED <<usage, now, wk, th, ticks, calls, checked_out, failed_at>>
  /\ UNCHANGED jobvars

\* add_key: the INSERT fails on a name the table holds
AddKey(k, tier) ==
  /\ key_metadata[k] = NoTier
  /\ AdminFrame(k)
  /\ \E order \in Perms({x \in Keys : x = k \/ key_metadata[x] # NoTier}) :
       RefreshKeysFromDb([key_metadata EXCEPT ![k] = tier], order)

UpdateKeyTier(k, tier) ==
  /\ key_metadata[k] # NoTier
  /\ key_metadata[k] # tier
  /\ AdminFrame(k)
  /\ \E order \in Perms({x \in Keys : key_metadata[x] # NoTier}) :
       RefreshKeysFromDb([key_metadata EXCEPT ![k] = tier], order)

DeleteKey(k) ==
  /\ key_metadata[k] # NoTier
  /\ AdminFrame(k)
  /\ \E order \in Perms({x \in Keys : x # k /\ key_metadata[x] # NoTier}) :
       RefreshKeysFromDb([key_metadata EXCEPT ![k] = NoTier], order)

\* ------------------------------------------------------------------- Init
\* Usage rows a previous run may have left (the table outlives the process): a
\* minute window in progress, and daily counts at or next to the limit.
Row(c, start, tok, rpd, day) ==
  [present |-> TRUE, rpm_requests |-> c, rpm_window_start |-> start,
   tpm_tokens |-> tok, rpd_requests |-> rpd, last_used_day |-> day]

NoUsage == [p \in Keys \X ModelIds |-> NoRow]

\* the table with one more row, for key k1
WithRow(model_id, row) == [NoUsage EXCEPT ![<<"k1", model_id>>] = row]

FlashRows ==
  { WithRow("gemini-3-flash-preview", Row(4, InitTime - 20, 40, 4, TodayStr(InitTime))) }

ProRows ==
  { WithRow("gemini-3-pro-preview", Row(1, InitTime - 20, 31990, 49, TodayStr(InitTime))),
    WithRow("gemini-3-pro-preview", Row(1, InitTime - 200, 10, 50, TodayStr(InitTime))),
    WithRow("gemini-3-pro-preview", Row(1, InitTime - 86400, 10, 50, TodayStr(InitTime) - 1)) }

\* The key table at construction: two free keys, with or without a paid one.
MixedTable == [k \in Keys |-> IF k = "k3" THEN "paid" ELSE "free"]
FreeTable == [k \in Keys |-> IF k = "k3" THEN NoTier ELSE "free"]
\* A table with a single key
SoloTable == [k \in Keys |-> IF k = "k1" THEN "free" ELSE NoTier]

\* The state __init__ leaves: the table loaded, the rotation shuffled.
\* ============================================================ extraction job
\* run_extraction chunks the news items, runs one extract_chunk_worker_cli per
\* chunk on a thread pool and gathers what the workers return.  The Streamlit
\* front end (extract_chunk_worker, run_extraction in streamlit_app.py) holds
\* the same logic.
\*
\* An item is its index in flat_items; flat_items[i] is the number of
\* characters chunk_data counts for item i (body, time, title, publisher, 50).
\* A list of records is what find_missing_items and len() see of it:
\*   n    how many records it holds,
\*   cov  the items whose title one of its source_headlines matches,
\*   bad  whether a record of it makes find_missing_items raise (a record
\*        that is no dict, or whose source_headlines is null or a number).
MAX_TOKENS == 10000
MAX_ATTEMPTS == 5
MIN_YIELD_PCT == 95

MaxItems == 4     \* items chunk_data is given
MaxJobItems == 3  \* items of a job whose workers are followed
MaxRecs == 1      \* records in one answer of the service

CharChoices == {7500, 12500, 25100}

NoRecs == [n |-> 0, cov |-> {}, bad |-> FALSE]

\* list + list
Cat(a, b) == [n |-> a.n + b.n, cov |-> a.cov \cup b.cov, bad |-> a.bad \/ b.bad]

Raises(recs) == recs.n > 0 /\ recs.bad

\* A find_missing_items that matches no title.
FindMissingAll(chunk, recs) == chunk

\* find_missing_items(chunk, salvaged_items), for lists it does not raise on.
FindMissing(chunk, recs) ==
  IF recs.n = 0 THEN chunk
  ELSE SelectSeq(chunk, LAMBDA item : item \notin recs.cov)

\* recovered < len(chunk) * 0.95
LowYield(chunk, recs) ==
  (Len(chunk) - Len(FindMissing(chunk, recs))) * 100 < Len(chunk) * MIN_YIELD_PCT

\* int(total_chars / 2.5)
EstTok(total_chars) == (total_chars * 2) \div 5

\* A packing that closes the current chunk without asking whether it holds
\* an item.
RECURSIVE PackUnguarded(_, _, _, _, _, _)
PackUnguarded(items, max_tokens, i, done, current_chunk, current_tokens) ==
  IF i > Len(items)
  THEN IF current_chunk # <<>> THEN Append(done, current_chunk) ELSE done
  ELSE LET est_tok == EstTok(items[i])
           full == (current_tokens + est_tok) > max_tokens
       IN  PackUnguarded(items, max_tokens, i + 1,
                IF full THEN Append(done, current_chunk) ELSE done,
                Append(IF full THEN <<>> ELSE current_chunk, i),
                (IF full THEN 0 ELSE current_tokens) + est_tok)

ChunkDataUnguarded(items, max_tokens) ==
  PackUnguarded(items, max_tokens, 1, <<>>, <<>>, 0)

RECURSIVE Pack(_, _, _, _, _, _)
Pack(items, max_tokens, i, done, current_chunk, current_tokens) ==
  IF i > Len(items)
  THEN IF current_chunk # <<>> THEN Append(done, current_chunk) ELSE done
  ELSE LET est_tok == EstTok(items[i])
           full == (current_tokens + est_tok) > max_tokens /\ current_chunk # <<>>
       IN  Pack(items, max_tokens, i + 1,
                IF full THEN Append(done, current_chunk) ELSE done,
                Append(IF full THEN <<>> ELSE current_chunk, i),
                (IF full THEN 0 ELSE current_tokens) + est_tok)

\* chunk_data, second loop: the chunks as lists of item indices.
ChunkData(items, max_tokens) == Pack(items, max_tokens, 1, <<>>, <<>>, 0)

\* ---------------------------------------------------- extract_chunk_worker_cli
\* The locals of one invocation.  last_raw_content is kept as the records
\* salvage_json_items would cut out of it (none for "" and for text without a
\* complete record); min_req is whether the local has been assigned; pc is
\* "loop" in the attempt loop, and "residual", "left" or "right" while the
\* invocation waits for the recursive call it made.
NoRes == [success |-> FALSE, items |-> NoRecs, kept |-> {}, calls |-> 0]

Frame(chunk) ==
  [chunk |-> chunk, attempt |-> 0, best_parsed_items |-> NoRecs,
   last_raw_content |-> NoRecs, min_req |-> FALSE, pc |-> "loop",
   salvaged_so_far |-> NoRecs, res_l |-> NoRes, api_call_count |-> 0]

Pending ==
  [status |-> "pending", success |-> FALSE, items |-> NoRecs, kept |-> {}, calls |-> 0]
Raised ==
  [status |-> "raised", success |-> FALSE, items |-> NoRecs, kept |-> {}, calls |-> 0]
Done(res) ==
  [status |-> "done", success |-> res.success, items |-> res.items, kept |-> res.kept,
   calls |-> res.calls]

\* The last request of a chunk's thread: the chunk it was for, its answer, the
\* wait_seconds of the answer (0 when it has none) and the seconds the worker
\* slept after it before going on.
NoReq == [chunk |-> <<>>, answer |-> "none", wait_seconds |-> 0, slept |-> 0]
NoResult ==
  [chunk |-> <<>>, attempt |-> 0, success |-> FALSE, items |-> NoRecs, via |-> "none"]

Top(c) == stacks[c][Len(stacks[c])]
Callers(c) == SubSeq(stacks[c], 1, Len(stacks[c]) - 1)
InLoop(c) == c \in DOMAIN stacks /\ stacks[c] # <<>> /\ Top(c).pc = "loop"

Range(s) == {s[i] : i \in DOMAIN s}

\* The record lists the service can answer a request for a chunk with.
AnswerRecs(chunk) ==
  {NoRecs}
    \cup [n : 1..MaxRecs, cov : SUBSET Range(chunk), bad : {FALSE}]
    \cup [n : 1..MaxRecs, cov : {{}}, bad : {TRUE}]

\* mid = len(chunk) // 2; chunk[:mid], chunk[mid:]
LeftChunk(chunk) == SubSeq(chunk, 1, Len(chunk) \div 2)
RightChunk(chunk) == SubSeq(chunk, (Len(chunk) \div 2) + 1, Len(chunk))

\* An invocation returns res to the invocations below it on the stack: a
\* caller waiting in the residual branch or for its right half returns in turn,
\* a caller waiting for its left half calls the worker on its right half.
RECURSIVE Unwind(_, _)
Unwind(callers, res) ==
  IF callers = <<>> THEN [stack |-> <<>>, out |-> res]
  ELSE LET f == callers[Len(callers)]
           below == SubSeq(callers, 1, Len(callers) - 1)
       IN  CASE f.pc = "residual" ->
                  Unwind(below, [success |-> res.success,
                                 items |-> Cat(f.salvaged_so_far, res.items),
                                 kept |-> f.salvaged_so_far.cov \cup res.kept,
                                 calls |-> f.api_call_count + res.calls])
             [] f.pc = "left" ->
                  [stack |-> below \o <<[f EXCEPT !.pc = "right", !.res_l = res],
                                        Frame(RightChunk(f.chunk))>>,
                   out |-> NoRes]
             [] OTHER ->
                  Unwind(below, [success |-> f.res_l.success /\ res.success,
                                 items |-> Cat(f.res_l.items, res.items),
                                 kept |-> f.res_l.kept \cup res.kept,
                                 calls |-> f.api_call_count + (f.res_l.calls + res.calls)])

JobFrame ==
  UNCHANGED <<flat_items, chunks, all_extracted_items, collected, pure_in, pure_out>>

\* return (success, items, logs, api_call_count) from the invocation on top of
\* the stack of c
Return(c, attempt, success, items, via, api_call_count) ==
  LET u == Unwind(Callers(c), [success |-> success, items |-> items, kept |-> {},
                               calls |-> api_call_count])
  IN  /\ stacks' = [stacks EXCEPT ![c] = u.stack]
      /\ futures' = [futures EXCEPT ![c] = IF u.stack = <<>> THEN Done(u.out) ELSE @]
      /\ last_result' = [last_result EXCEPT ![c] =
            [chunk |-> Top(c).chunk, attempt |-> attempt, success |-> success,
             items |-> items, via |-> via]]

\* an exception no handler of the worker catches ends the thread of c
Raise(c) ==
  /\ stacks' = [stacks EXCEPT ![c] = <<>>]
  /\ futures' = [futures EXCEPT ![c] = Raised]
  /\ last_result' = [last_result EXCEPT ![c] = NoResult]

\* the loop goes on with the locals f
Continue(c, f) ==
  /\ stacks' = [stacks EXCEPT ![c] = Append(Callers(c), f)]
  /\ last_result' = [last_result EXCEPT ![c] = NoResult]
  /\ UNCHANGED futures

\* A loop that sends the prompt on every turn, whatever the attempt.
SendsAnyAttempt(c) == InLoop(c) /\ Top(c).attempt < MAX_ATTEMPTS

\* The invocation on top of the stack of c is about to send the prompt of its
\* chunk: the loop test passed and the attempt >= 2 block does not apply.
Sends(c) ==
  /\ InLoop(c)
  /\ Top(c).attempt < MAX_ATTEMPTS
  /\ ~(Top(c).attempt + 1 >= 2 /\ Len(Top(c).chunk) > 1)

Sent(c, answer, wait_seconds, slept) ==
  req' = [req EXCEPT ![c] = [chunk |-> Top(c).chunk, answer |-> answer,
                             wait_seconds |-> wait_seconds, slept |-> slept]]

\* the waits get_key reports: a second, or the wait for a busy pool
WaitChoices == {1, BUSY_WAIT}

\* generate_content answers success False with wait_seconds > 0: the worker
\* sleeps a second and goes round the loop.
RateLimited(c, wait_seconds) ==
  /\ Sends(c)
  /\ Sent(c, "rate_limited", wait_seconds, 1)
  /\ Continue(c, [Top(c) EXCEPT !.attempt = @ + 1, !.api_call_count = @ + 1])
  /\ JobFrame /\ UNCHANGED poolvars

\* generate_content answers success False without wait_seconds: the prompt is
\* too large for the model, or the call failed.
FailKinds == {"too_large", "failed"}

Failed(c, kind) ==
  /\ Sends(c)
  /\ Sent(c, kind, 0, 2)
  /\ Continue(c, [Top(c) EXCEPT !.attempt = @ + 1, !.api_call_count = @ + 1])
  /\ JobFrame /\ UNCHANGED poolvars

\* recovered < min_req and attempt < max_attempts: go round again
Retries(chunk, recs, attempt) == LowYield(chunk, recs) /\ attempt < MAX_ATTEMPTS

\* The answer parses to the list items; salvage_json_items would get salv out
\* of the same text.
Parsed(c, items, salv) ==
  LET f == Top(c)
      attempt == f.attempt + 1
      best == IF items.n > f.best_parsed_items.n THEN items ELSE f.best_parsed_items
      g == [f EXCEPT !.attempt = attempt, !.last_raw_content = salv,
                     !.best_parsed_items = best, !.api_call_count = @ + 1]
  IN  /\ Sends(c)
      /\ Sent(c, "parsed", 0, IF Raises(items) THEN 2
                              ELSE IF Retries(f.chunk, items, attempt) THEN 1 ELSE 0)
      /\ IF Raises(items) THEN Continue(c, g)
         ELSE IF Retries(f.chunk, items, attempt)
              THEN Continue(c, [g EXCEPT !.min_req = TRUE])
              ELSE Return(c, attempt, TRUE, items, "parsed", g.api_call_count)
      /\ JobFrame /\ UNCHANGED poolvars

\* The answer does not parse, or parses to something that is no object and no
\* list; keyword says whether the error text has one of the four keywords.
ParseError(c, keyword, salv) ==
  LET f == Top(c)
      attempt == f.attempt + 1
      g == [f EXCEPT !.attempt = attempt, !.last_raw_content = salv,
                     !.api_call_count = @ + 1]
      eager == keyword /\ salv.n > 0 /\ ~Raises(salv) /\ f.min_req
  IN  /\ Sends(c)
      /\ Sent(c, "parse_error", 0,
              IF ~eager THEN 2 ELSE IF Retries(f.chunk, salv, attempt) THEN 1 ELSE 0)
      /\ IF eager /\ ~Retries(f.chunk, salv, attempt)
         THEN Return(c, attempt, TRUE, salv, "eager", g.api_call_count)
         ELSE Continue(c, g)
      /\ JobFrame /\ UNCHANGED poolvars

\* The attempt >= 2 block of a chunk of several items.
Residue(c) ==
  LET f == Top(c)
      salvaged_so_far == IF f.best_parsed_items.n > 0 THEN f.best_parsed_items
                         ELSE f.last_raw_content
      missing_items == FindMissing(f.chunk, salvaged_so_far)
      \* while it waits for a recursive call the invocation reads none of
      \* best_parsed_items, last_raw_content, min_req again
      g == [Frame(f.chunk) EXCEPT !.attempt = f.attempt + 1,
                                  !.api_call_count = f.api_call_count]
  IN  /\ InLoop(c)
      /\ f.attempt < MAX_ATTEMPTS
      /\ f.attempt + 1 >= 2 /\ Len(f.chunk) > 1
      /\ IF Raises(salvaged_so_far) THEN Raise(c)
         ELSE IF missing_items = <<>>
              THEN Return(c, f.attempt + 1, TRUE, salvaged_so_far, "residue",
                          f.api_call_count)
         ELSE IF Len(missing_items) < Len(f.chunk)
              THEN /\ stacks' = [stacks EXCEPT ![c] = Callers(c) \o
                        <<[g EXCEPT !.pc = "residual",
                                    !.salvaged_so_far = salvaged_so_far],
                          Frame(missing_items)>>]
                   /\ last_result' = [last_result EXCEPT ![c] = NoResult]
                   /\ UNCHANGED futures
         ELSE /\ stacks' = [stacks EXCEPT ![c] = Callers(c) \o
                        <<[g EXCEPT !.pc = "left"], Frame(LeftChunk(f.chunk))>>]
              /\ last_result' = [last_result EXCEPT ![c] = NoResult]
              /\ UNCHANGED futures
      /\ UNCHANGED req
      /\ JobFrame /\ UNCHANGED poolvars

\* After the loop: the emergency salvage of the last answer.
Exhausted(c) ==
  LET f == Top(c)
      salvaged == f.last_raw_content
  IN  /\ InLoop(c)
      /\ f.attempt >= MAX_ATTEMPTS
      /\ IF salvaged.n = 0
         THEN Return(c, f.attempt, FALSE, NoRecs, "exhausted", f.api_call_count)
         ELSE IF Raises(salvaged) THEN Raise(c)
         ELSE IF ~LowYield(f.chunk, salvaged)
              THEN Return(c, f.attempt, TRUE, salvaged, "emergency", f.api_call_count)
              ELSE Return(c, f.attempt, FALSE, NoRecs, "exhausted", f.api_call_count)
      /\ UNCHANGED req
      /\ JobFrame /\ UNCHANGED poolvars

\* ------------------------------------------------------------- run_extraction
\* chunks = chunk_data(items, max_tokens=10000), and one worker submitted per
\* chunk to a pool of min(len(chunks), 15) threads.
RunExtraction ==
  /\ chunks = <<>> /\ flat_items # <<>>
  /\ chunks' = ChunkData(flat_items, MAX_TOKENS)
  /\ stacks' = [c \in DOMAIN chunks' |-> <<Frame(chunks'[c])>>]
  /\ futures' = [c \in DOMAIN chunks' |-> Pending]
  /\ req' = [c \in DOMAIN chunks' |-> NoReq]
  /\ last_result' = [c \in DOMAIN chunks' |-> NoResult]
  /\ UNCHANGED <<flat_items, all_extracted_items, collected, pure_in, pure_out>>
  /\ UNCHANGED poolvars

\* for future in as_completed(...): future.result() of a finished worker.  A
\* worker that raised makes result() raise, which ends run_extraction.
Collect(c) ==
  /\ c \in DOMAIN futures /\ c \notin collected
  /\ futures[c].status # "pending"
  /\ \A d \in collected : futures[d].status = "done"
  /\ collected' = collected \cup {c}
  /\ all_extracted_items' =
       IF futures[c].status = "done" /\ futures[c].success
       THEN Cat(all_extracted_items, futures[c].items)
       ELSE all_extracted_items
  /\ UNCHANGED <<flat_items, chunks, stacks, futures, req, last_result,
                 pure_in, pure_out>>
  /\ UNCHANGED poolvars

\* The extraction job before run_extraction has been entered.
NoJob ==
  /\ flat_items = <<>>
  /\ chunks = <<>>
  /\ stacks = <<>>
  /\ futures = <<>>
  /\ req = <<>>
  /\ last_result = <<>>
  /\ all_extracted_items = NoRecs
  /\ collected = {}
  /\ pure_in = <<>> /\ pure_out = <<>>

PoolInit(tables, usages) ==
  /\ key_metadata \in tables
  /\ available_keys \in Perms({k \in Keys : key_metadata[k] # NoTier})
  /\ cooldown_keys = <<>>
  /\ dead_keys = {}
  /\ usage \in usages
  /\ now = InitTime
  /\ wk = [w \in Workers |-> Idle]
  /\ th = [w \in Workers |-> NoFrame]
  /\ ret = NoRet
  /\ checked_out = [k \in Keys |-> 0]
  /\ ticks = 0
  /\ calls = 0
  /\ admins = 0
  /\ fatal_called = {}
  /\ failed_at = [k \in Keys |-> -1]

InitWith(tables, usages) == NoJob /\ PoolInit(tables, usages)

\* ------------------------------------------------------------------- Next
\* The steps of the worker threads, for given sets of inputs and store outcomes.
WorkerNext(workers, configs, ests, storeOks, silent, maxCalls) ==
  \/ \E w \in workers, c \in configs, e \in ests, readOk \in storeOks :
       calls < maxCalls /\ Call(w, c, e, readOk)
  \/ \E w \in workers, out \in OutChoices, readOk \in storeOks, writeOk \in storeOks :
       Http200Text(w, out, readOk, writeOk)
  \/ \E w \in workers : Http429(w)
  \/ \E w \in workers, o \in silent : HttpOther(w, o)

\* The workers at one instant, for every config and request size, against a
\* usage store that may fail.
Init == InitWith({MixedTable, FreeTable}, {NoUsage} \cup FlashRows)

Next == WorkerNext(Workers, ConfigIds, EstChoices, BOOLEAN, SilentOutcomes, MaxCalls)

Spec == Init /\ [][Next]_vars

\* One worker and the maintenance of the key table: report_fatal_error,
\* add_key, update_key_tier, delete_key.
InitAdmin == InitWith({MixedTable, FreeTable}, {NoUsage})

NextAdmin ==
  \/ WorkerNext({"w1"}, ConfigIds, {10}, {TRUE}, {"api_error"}, MaxCalls)
  \/ \E k \in Keys : ReportFatalError(k)
  \/ \E k \in Keys, t \in Tiers : AddKey(k, t)
  \/ \E k \in Keys, t \in Tiers : UpdateKeyTier(k, t)
  \/ \E k \in Keys : DeleteKey(k)

SpecAdmin == InitAdmin /\ [][NextAdmin]_vars

\* One worker over time: the free-tier configs against a healthy usage store,
\* and the clock.  On a table with a single key the worker makes up to
\* MaxTimedCalls calls (a minute window can be filled and outlived), on the
\* table with two keys up to MaxPairCalls.
FreeConfigs == {"gemini-3-flash-free", "gemini-3-pro-free"}

InitTimed == InitWith({SoloTable, FreeTable}, {NoUsage} \cup ProRows)

NextTimed ==
  \/ WorkerNext({"w1"}, FreeConfigs, {10}, {TRUE}, {"api_error"},
                IF key_metadata = SoloTable THEN MaxTimedCalls ELSE MaxPairCalls)
  \/ \E d \in TickSteps : Tick(d)

SpecTimed == InitTimed /\ [][NextTimed]_vars

\* One worker on a table with a single key, against a usage store whose reads
\* and writes may fail: the limits are consulted through _check_key_limits,
\* which answers 0.0 when the read raises.
InitOutage == InitWith({SoloTable}, {NoUsage} \cup FlashRows \cup ProRows)

NextOutage == WorkerNext({"w1"}, FreeConfigs, {10}, BOOLEAN, {"api_error"}, MaxOutageCalls)

SpecOutage == InitOutage /\ [][NextOutage]_vars

\* The worker threads with get_key run step by step, on one free-tier config.
InitThreads == InitWith({FreeTable}, {NoUsage})

NextThreads ==
  \/ \E w \in Workers : calls < MaxThreadCalls /\ TEnter(w, "gemini-3-pro-free", 10)
  \/ \E w \in Workers : TReclaim(w)
  \/ \E w \in Workers : TStart(w)
  \/ \E w \in Workers : TTest(w)
  \/ \E w \in Workers : TPop(w, TRUE)
  \/ \E w \in Workers : TFinish(w)
  \/ \E w \in Workers, out \in OutChoices : Http200Text(w, out, TRUE, TRUE)
  \/ \E w \in Workers : Http429(w)
  \/ \E w \in Workers : HttpOther(w, "api_error")
  \/ Tick(WINDOW)

SpecThreads == InitThreads /\ [][NextThreads]_vars

\* The worker threads with get_key and report_usage both run step by step.
InitRows == InitWith({FreeTable}, {NoUsage})

NextRows ==
  \/ \E w \in Workers : calls < MaxRowCalls /\ TEnter(w, "gemini-3-pro-free", 10)
  \/ \E w \in Workers : TReclaim(w)
  \/ \E w \in Workers : TStart(w)
  \/ \E w \in Workers : TTest(w)
  \/ \E w \in Workers : TPop(w, TRUE)
  \/ \E w \in Workers : TFinish(w)
  \/ \E w \in Workers, out \in OutChoices : UsageSelect(w, out)
  \/ \E w \in Workers : UsageWrite(w)
  \/ \E w \in Workers : Http429(w)
  \/ Tick(WINDOW)

SpecRows == InitRows /\ [][NextRows]_vars

\* The extraction job: run_extraction over a few items, the service answering
\* every request of a worker in any of the ways generate_content can.  The key
\* pool is left out of these steps; what it does to one call is the answer.
JobInputs == {[i \in 1..n |-> 2500] : n \in 1..MaxJobItems}

InitJob ==
  /\ PoolInit({FreeTable}, {NoUsage}) /\ available_keys = <<"k1", "k2">>
  /\ flat_items \in JobInputs
  /\ chunks = <<>> /\ stacks = <<>> /\ futures = <<>> /\ req = <<>>
  /\ last_result = <<>>
  /\ all_extracted_items = NoRecs
  /\ collected = {}
  /\ pure_in = <<>> /\ pure_out = <<>>

NextJob ==
  \/ RunExtraction
  \/ \E c \in DOMAIN stacks, wait_seconds \in WaitChoices : RateLimited(c, wait_seconds)
  \/ \E c \in DOMAIN stacks, kind \in FailKinds : Failed(c, kind)
  \/ \E c \in DOMAIN stacks :
       Sends(c) /\ \E items \in AnswerRecs(Top(c).chunk),
                        salv \in AnswerRecs(Top(c).chunk) : Parsed(c, items, salv)
  \/ \E c \in DOMAIN stacks :
       Sends(c) /\ \E keyword \in BOOLEAN, salv \in AnswerRecs(Top(c).chunk) :
                     ParseError(c, keyword, salv)
  \/ \E c \in DOMAIN stacks : Residue(c)
  \/ \E c \in DOMAIN stacks : Exhausted(c)
  \/ \E c \in DOMAIN futures : Collect(c)

SpecJob == InitJob /\ [][NextJob]_vars

\* The workers of one chunk of up to MaxCallItems items, the service answering
\* every request with at most one record; every worker that can take a step
\* does take one in the end.
MaxCallItems == 2

OneRecord(chunk) ==
  {NoRecs}
    \cup [n : {1}, cov : SUBSET Range(chunk), bad : {FALSE}]
    \cup [n : {1}, cov : {{}}, bad : {TRUE}]

InitCalls ==
  /\ PoolInit({FreeTable}, {NoUsage}) /\ available_keys = <<"k1", "k2">>
  /\ flat_items \in {[i \in 1..n |-> 2500] : n \in 1..MaxCallItems}
  /\ chunks = <<>> /\ stacks = <<>> /\ futures = <<>> /\ req = <<>>
  /\ last_result = <<>>
  /\ all_extracted_items = NoRecs
  /\ collected = {}
  /\ pure_in = <<>> /\ pure_out = <<>>

NextCalls ==
  \/ RunExtraction
  \/ \E c \in DOMAIN stacks, wait_seconds \in WaitChoices : RateLimited(c, wait_seconds)
  \/ \E c \in DOMAIN stacks, kind \in FailKinds : Failed(c, kind)
  \/ \E c \in DOMAIN stacks :
       \* from a text that parses, salvage_json_items gets the records the
       \* parser got, or none when they do not start with their category
       Sends(c) /\ \E items \in OneRecord(Top(c).chunk) :
                     \E salv \in {NoRecs, items} : Parsed(c, items, salv)
  \/ \E c \in DOMAIN stacks :
       Sends(c) /\ \E keyword \in BOOLEAN, salv \in OneRecord(Top(c).chunk) :
                     ParseError(c, keyword, salv)
  \/ \E c \in DOMAIN stacks : Residue(c)
  \/ \E c \in DOMAIN stacks : Exhausted(c)
  \/ \E c \in DOMAIN futures : Collect(c)

SpecCalls == InitCalls /\ [][NextCalls]_vars /\ WF_vars(NextCalls)

\* chunk_data alone, over every list of up to MaxItems items of three sizes:
\* 3000 and 5000 estimated tokens, and 10040, which is over the budget.
InitChunk ==
  /\ PoolInit({FreeTable}, {NoUsage}) /\ available_keys = <<"k1", "k2">>
  /\ flat_items \in UNION {[1..n -> CharChoices] : n \in 1..MaxItems}
  /\ chunks = <<>> /\ stacks = <<>> /\ futures = <<>> /\ req = <<>>
  /\ last_result = <<>>
  /\ all_extracted_items = NoRecs
  /\ collected = {}
  /\ pure_in = <<>> /\ pure_out = <<>>

NextChunk == RunExtraction

SpecChunk == InitChunk /\ [][NextChunk]_vars

\* ------------------------------------------------- helper functions alone
\* A helper called on its own: pure_in holds its arguments, the step of the
\* helper puts what it returns into pure_out.
PureInit(inputs) ==
  /\ PoolInit({FreeTable}, {NoUsage}) /\ available_keys = <<"k1", "k2">>
  /\ flat_items = <<>> /\ chunks = <<>> /\ stacks = <<>> /\ futures = <<>>
  /\ req = <<>> /\ last_result = <<>>
  /\ all_extracted_items = NoRecs
  /\ collected = {}
  /\ pure_in \in {<<x>> : x \in inputs}
  /\ pure_out = <<>>

Called(fn) == pure_in # <<>> /\ pure_in[1].fn = fn /\ pure_out = <<>>

Returned(value) ==
  /\ pure_out' = <<value>>
  /\ UNCHANGED <<flat_items, chunks, stacks, futures, req, last_result,
                 all_extracted_items, collected, pure_in>>
  /\ UNCHANGED poolvars

\* chunk_data, first loop.  A body is the sequence of its characters, here the
\* characters 1, 2, ..., each different; a title is <<text>>, and
\* '[Part k/n] text' is <<"Part", k, n, text>>.
MaxBody == 24
TokenBudgets == {1, 2, 4}

\* int(max_tokens * 2.5)
LimitChars(max_tokens) == (max_tokens * 5) \div 2

\* [body[i:i+limit_chars] for i in range(0, len(body), limit_chars)]
RECURSIVE Parts(_, _)
Parts(body, limit_chars) ==
  IF body = <<>> THEN <<>>
  ELSE <<SubSeq(body, 1, Min2(limit_chars, Len(body)))>>
         \o Parts(SubSeq(body, limit_chars + 1, Len(body)), limit_chars)

\* main.py and streamlit_app.py: the items that replace item in flat_items
Sliced(item, max_tokens) ==
  LET parts == Parts(item.body, LimitChars(max_tokens))
  IN  IF Len(item.body) > LimitChars(max_tokens)
      THEN [p_idx \in 1..Len(parts) |->
              [title |-> <<"Part", p_idx, Len(parts), item.title[1]>>,
               body |-> parts[p_idx]]]
      ELSE <<item>>

\* app.py: body[:limit_chars] + "... [TRUNCATED]", fifteen characters that
\* are none of the body's
TRUNCATED_MARK == [i \in 1..15 |-> 0]

Truncated1(item, max_tokens) ==
  IF Len(item.body) > LimitChars(max_tokens)
  THEN <<[title |-> item.title,
          body |-> SubSeq(item.body, 1, LimitChars(max_tokens)) \o TRUNCATED_MARK]>>
  ELSE <<item>>

SliceInputs ==
  [fn : {"chunk_data"},
   item : {[title |-> <<"T">>, body |-> [i \in 1..n |-> i]] : n \in 0..MaxBody},
   max_tokens : TokenBudgets]

ChunkDataSlice ==
  /\ Called("chunk_data")
  /\ Returned([by |-> "main", items |-> Sliced(pure_in[1].item, pure_in[1].max_tokens)])

AppChunkData ==
  /\ Called("chunk_data")
  /\ Returned([by |-> "app",
               items |-> Truncated1(pure_in[1].item, pure_in[1].max_tokens)])

InitSlice == PureInit(SliceInputs)
NextSlice == ChunkDataSlice \/ AppChunkData
SpecSlice == InitSlice /\ [][NextSlice]_vars

\* normalize_text and find_missing_items on texts.  A text is the sequence of
\* its characters; "A" stands for the upper-case letters, "!" for the
\* characters the pattern [^a-z0-9\s] removes.
MaxStr == 3            \* characters of a title or headline drawn at large
MaxTitleTokens == 7    \* words of a title made of one-character words

Alphabet == {"a", "A", " ", "!"}
Kept == {"a", "b", " ", "1", "2", "3", "4", "5", "6", "7", "8", "9"}

Lower(ch) == IF ch = "A" THEN "a" ELSE ch

RECURSIVE Strip(_)
Strip(str) ==
  IF str = <<>> THEN <<>>
  ELSE IF Head(str) = " " THEN Strip(Tail(str))
  ELSE IF str[Len(str)] = " " THEN Strip(SubSeq(str, 1, Len(str) - 1))
  ELSE str

\* re.sub(r'[^a-z0-9\s]', '', str(text).lower()).strip()
NormalizeText(text) ==
  LET low == [i \in 1..Len(text) |-> Lower(text[i])]
  IN  Strip(SelectSeq(low, LAMBDA ch : ch \in Kept))

\* set(norm.split())
RECURSIVE Split(_)
Split(str) ==
  IF str = <<>> THEN {}
  ELSE IF Head(str) = " " THEN Split(Tail(str))
  ELSE LET ends == {i \in 1..Len(str) : str[i] = " "}
           k == IF ends = {} THEN Len(str) + 1 ELSE SetMin(ends)
       IN  {SubSeq(str, 1, k - 1)} \cup Split(SubSeq(str, k, Len(str)))

\* the token sets of the declared headlines (first loop)
ExtractedSets(salvaged_items) ==
  UNION {{Split(NormalizeText(salvaged_items[r][h])) :
            h \in {h \in DOMAIN salvaged_items[r] :
                     NormalizeText(salvaged_items[r][h]) # <<>>}} :
         r \in DOMAIN salvaged_items}

\* is_found of one title (second loop)
IsFound(title, extracted_sets) ==
  LET title_tokens == Split(NormalizeText(title))
  IN  /\ NormalizeText(title) # <<>>
      /\ \E e_tokens \in extracted_sets :
           Cardinality(title_tokens \cap e_tokens) * 100
             >= 85 * Cardinality(title_tokens)

\* find_missing_items on a chunk of titles and records that are lists of
\* source_headlines
FindMissingItems(chunk, salvaged_items) ==
  IF salvaged_items = <<>> THEN chunk
  ELSE SelectSeq(chunk, LAMBDA title : ~IsFound(title, ExtractedSets(salvaged_items)))

RECURSIVE Strings(_)
Strings(n) ==
  IF n = 0 THEN {<<>>}
  ELSE Strings(n - 1) \cup {Append(str, ch) : str \in Strings(n - 1), ch \in Alphabet}

Digit(i) == <<"1", "2", "3", "4", "5", "6", "7", "8", "9">>[i]

\* the words numbered in S, in rising order, one space between two
RECURSIVE Words(_)
Words(S) ==
  IF S = {} THEN <<>>
  ELSE LET i == SetMin(S)
       IN  IF S = {i} THEN <<Digit(i)>> ELSE <<Digit(i), " ">> \o Words(S \ {i})

MatchInputs ==
  [fn : {"find_missing_items"},
   chunk : {<<title>> : title \in Strings(MaxStr)},
   salvaged_items : {<<>>} \cup {<<<<h>>>> : h \in Strings(MaxStr)}]
  \cup
  [fn : {"find_missing_items"},
   chunk : {<<Words(1..t), <<"9">>>> : t \in 1..MaxTitleTokens},
   salvaged_items : {<<<<Words(S)>>>> : S \in SUBSET (1..MaxTitleTokens)}]

FindMissingItemsCall ==
  /\ Called("find_missing_items")
  /\ Returned(FindMissingItems(pure_in[1].chunk, pure_in[1].salvaged_items))

InitMatch == PureInit(MatchInputs)
NextMatch == FindMissingItemsCall
SpecMatch == InitMatch /\ [][NextMatch]_vars

\* salvage_json_items on raw text.  A text is the sequence of its lexemes:
\*   "M"  the record-start marker  {"category":      (opens a brace)
\*   "s"  a complete scalar value  "NEWS"
\*   "k"  a comma, a key and a colon  , "event_summary":
\*   "}"  a closing brace
\*   "x"  noise outside JSON
\*   "q"  a string that is opened and not closed before the next lexeme
MaxText == 4       \* lexemes of a text drawn at large
MaxSegments == 3   \* segments of a text put together from Segments

Lexemes == {"M", "s", "k", "}", "x", "q"}

NoParse == [next |-> 0, vals |-> <<>>]

\* json.loads on a span: an object is the marker, a value, further key-value
\* pairs and the closing brace; a value is a scalar or an object.  The object
\* read is the list of the texts of its values, category first.
RECURSIVE ParseVal(_, _), ParseObj(_, _), ParseFields(_, _, _)
ParseVal(seq, i) ==
  IF i > Len(seq) THEN 0
  ELSE IF seq[i] = "s" THEN i + 1
  ELSE IF seq[i] = "M" THEN ParseObj(seq, i).next
  ELSE 0

ParseFields(seq, j, vals) ==
  IF j > Len(seq) THEN NoParse
  ELSE IF seq[j] = "}" THEN [next |-> j + 1, vals |-> vals]
  ELSE IF seq[j] = "k"
       THEN LET n == ParseVal(seq, j + 1)
            IN  IF n = 0 THEN NoParse
                ELSE ParseFields(seq, n, Append(vals, SubSeq(seq, j + 1, n - 1)))
  ELSE NoParse

ParseObj(seq, i) ==
  LET n == ParseVal(seq, i + 1)
  IN  IF n = 0 THEN NoParse
      ELSE ParseFields(seq, n, <<SubSeq(seq, i + 1, n - 1)>>)

\* json.loads(obj_str, strict=False): ok is FALSE where it raises
JsonLoads(obj_str) ==
  LET r == ParseObj(obj_str, 1)
  IN  IF obj_str # <<>> /\ obj_str[1] = "M" /\ r.next = Len(obj_str) + 1
      THEN [ok |-> TRUE, obj |-> r.vals]
      ELSE [ok |-> FALSE, obj |-> <<>>]

\* the scan for the balanced closing brace: the place of the brace that
\* brings the count back to zero, 0 when the text ends first
RECURSIVE ScanBraces(_, _, _)
ScanBraces(text, i, brace_count) ==
  IF i > Len(text) THEN 0
  ELSE IF text[i] = "M" THEN ScanBraces(text, i + 1, brace_count + 1)
  ELSE IF text[i] = "}"
       THEN IF brace_count - 1 = 0 THEN i
            ELSE ScanBraces(text, i + 1, brace_count - 1)
  ELSE ScanBraces(text, i + 1, brace_count)

\* a loop that gives up at the first span json.loads rejects
RECURSIVE SalvageUntilMalformed(_, _, _)
SalvageUntilMalformed(text, i, items) ==
  IF i > Len(text) THEN items
  ELSE IF text[i] # "M" THEN SalvageUntilMalformed(text, i + 1, items)
  ELSE LET end_idx == ScanBraces(text, i, 0)
       IN  IF end_idx = 0 THEN SalvageUntilMalformed(text, i + 1, items)
           ELSE LET r == JsonLoads(SubSeq(text, i, end_idx))
                IN  IF r.ok
                    THEN SalvageUntilMalformed(text, i + 1, Append(items, r.obj))
                    ELSE items

SalvageStopsAtMalformed(text) == SalvageUntilMalformed(text, 1, <<>>)

\* the loop over the markers, from the marker at i on
RECURSIVE SalvageFrom(_, _, _)
SalvageFrom(text, i, items) ==
  IF i > Len(text) THEN items
  ELSE IF text[i] # "M" THEN SalvageFrom(text, i + 1, items)
  ELSE LET end_idx == ScanBraces(text, i, 0)
       IN  IF end_idx = 0 THEN SalvageFrom(text, i + 1, items)
           ELSE LET r == JsonLoads(SubSeq(text, i, end_idx))
                IN  SalvageFrom(text, i + 1,
                                IF r.ok THEN Append(items, r.obj) ELSE items)

SalvageJsonItems(text) == IF text = <<>> THEN <<>> ELSE SalvageFrom(text, 1, <<>>)

RECURSIVE Texts(_)
Texts(n) ==
  IF n = 0 THEN {<<>>}
  ELSE Texts(n - 1) \cup {Append(t, lx) : t \in Texts(n - 1), lx \in Lexemes}

COMPLETE == <<"M", "s", "k", "s", "}">>     \* a complete record of two fields
CUT_OFF == <<"M", "s", "k", "q">>           \* a record cut off inside a string

Segments ==
  {COMPLETE, CUT_OFF,
   <<"M", "s", "}">>,                       \* a complete record of one field
   <<"M", "s", "k", "M", "s", "}", "}">>,   \* a record holding a record
   <<"M", "x", "}">>, <<"M", "s", "s", "}">>, <<"M", "q", "}">>,  \* malformed
   <<"M", "s">>,                            \* cut off after a value
   <<"x">>, <<"}">>}                        \* noise

RECURSIVE Joined(_)
Joined(n) ==
  IF n = 0 THEN {<<>>}
  ELSE Joined(n - 1) \cup {t \o g : t \in Joined(n - 1), g \in Segments}

SalvageInputs ==
  [fn : {"salvage_json_items"}, text : Texts(MaxText) \cup Joined(MaxSegments)]

SalvageJsonItemsCall ==
  /\ Called("salvage_json_items")
  /\ Returned([raised |-> FALSE, items |-> SalvageJsonItems(pure_in[1].text)])

InitSalvage == PureInit(SalvageInputs)
NextSalvage == SalvageJsonItemsCall
SpecSalvage == InitSalvage /\ [][NextSalvage]_vars

\* KeyManager.estimate_tokens on texts given by their lengths, two calls in a
\* row.
MaxLen == 100      \* characters of a text

\* the docstring's rule of thumb, one token for four characters
EstimateTokensByFour(text_len) ==
  IF text_len = 0 THEN 0 ELSE text_len \div 4 + 1

\* int(len(text) / 2.5) + 1: the quotient of the two floats is exact to within
\* rounding and never within rounding of an integer it does not reach
EstimateTokens(text_len) ==
  IF text_len = 0 THEN 0 ELSE (text_len * 2) \div 5 + 1

EstimateInputs == [fn : {"estimate_tokens"}, lens : (0..MaxLen) \X (0..MaxLen)]

EstimateTokensCalls ==
  /\ Called("estimate_tokens")
  /\ Returned(<<EstimateTokens(pure_in[1].lens[1]), EstimateTokens(pure_in[1].lens[2])>>)

InitEstimate == PureInit(EstimateInputs)
NextEstimate == EstimateTokensCalls
SpecEstimate == InitEstimate /\ [][NextEstimate]_vars

\* The fidelity check of the final report, on the titles of the source items
\* and the source_headlines of the extracted items.
MaxTitles == 3     \* source items
MaxSources == 2    \* declared headlines

TitleChoices == {<<"a">>, <<"A">>, <<"b">>, <<"a", " ", "b">>, <<"!">>}
SourceChoices == {<<"a">>, <<"a", " ", "b">>, <<"b", "!">>, <<"1">>}

\* x in y, on texts
IsSubstring(x, y) ==
  \E i \in 1..(Len(y) - Len(x) + 1) : SubSeq(y, i, i + Len(x) - 1) = x

\* {normalize_text(h): h for h in original_headlines}: the keys in the order
\* of their first insertion, each with the title inserted last
RECURSIVE NormOriginal(_, _)
NormOriginal(original_headlines, d) ==
  IF original_headlines = <<>> THEN d
  ELSE LET h == Head(original_headlines)
           at == {i \in DOMAIN d : d[i].h_norm = NormalizeText(h)}
       IN  NormOriginal(Tail(original_headlines),
             IF at = {} THEN Append(d, [h_norm |-> NormalizeText(h), original_title |-> h])
             ELSE [i \in DOMAIN d |-> IF i \in at THEN [d[i] EXCEPT !.original_title = h]
                                                 ELSE d[i]])

\* is_found of one key
TitleFound(h_norm, norm_extracted) ==
  \E s_norm \in norm_extracted :
    h_norm = s_norm \/ IsSubstring(h_norm, s_norm) \/ IsSubstring(s_norm, h_norm)

\* the fidelity check; the score is the fraction <<numerator, denominator>>
FidelityCheck(original_headlines, extracted_sources) ==
  LET norm_original == NormOriginal(original_headlines, <<>>)
      norm_extracted == {NormalizeText(extracted_sources[i]) : i \in DOMAIN extracted_sources}
      preserved == SelectSeq(norm_original, LAMBDA e : TitleFound(e.h_norm, norm_extracted))
      lost == SelectSeq(norm_original, LAMBDA e : ~TitleFound(e.h_norm, norm_extracted))
  IN  [preserved_titles |-> [i \in DOMAIN preserved |-> preserved[i].original_title],
       lost_titles |-> [i \in DOMAIN lost |-> lost[i].original_title],
       fidelity_score |-> IF original_headlines # <<>>
                          THEN <<Len(preserved) * 100, Len(original_headlines)>>
                          ELSE <<0, 1>>]

RECURSIVE Lists(_, _)
Lists(S, n) ==
  IF n = 0 THEN {<<>>}
  ELSE Lists(S, n - 1) \cup {Append(l, x) : l \in Lists(S, n - 1), x \in S}

FidelityInputs ==
  [fn : {"fidelity_check"},
   original_headlines : Lists(TitleChoices, MaxTitles),
   extracted_sources : Lists(SourceChoices, MaxSources)]

FidelityCheckRun ==
  /\ Called("fidelity_check")
  /\ Returned(FidelityCheck(pure_in[1].original_headlines, pure_in[1].extracted_sources))

InitFidelity == PureInit(FidelityInputs)
NextFidelity == FidelityCheckRun
SpecFidelity == InitFidelity /\ [][NextFidelity]_vars

\* The tokens generate_content reports for a successful request, on a prompt
\* and a response text given by their lengths.
\* out_tokens = int(len(text_content) * 0.25)
OutTokens(text_len) == text_len \div 4

\* total_tokens = est_tokens + out_tokens, the argument of report_usage
TotalTokens(prompt_len, text_len) == EstimateTokens(prompt_len) + OutTokens(text_len)

\* the response text of a success is not empty
ReportInputs == [fn : {"generate_content"}, prompt_len : 0..MaxLen, text_len : 1..MaxLen]

ReportsTokens ==
  /\ Called("generate_content")
  /\ Returned([report_usage |-> <<TotalTokens(pure_in[1].prompt_len, pure_in[1].text_len)>>])

InitReport == PureInit(ReportInputs)
NextReport == ReportsTokens
SpecReport == InitReport /\ [][NextReport]_vars

\* The worker's validation and the final report on the same job: one chunk
\* holding all the source items, and the records accepted for it (a record is
\* the list of its source_headlines).
MaxAgreeTitles == 2    \* source items of the job
MaxAgreeRecords == 2   \* records of the aggregate

AgreeTitles == {<<"a">>, <<"A">>, <<"a", " ", "b">>, <<"b", " ", "a">>}
AgreeHeadlines == AgreeTitles \cup {<<"b">>, <<"a", " ", "b", " ", "1">>}

\* extracted_sources: the source_headlines of the aggregated records, in order
RECURSIVE ExtractedSources(_)
ExtractedSources(all_items) ==
  IF all_items = <<>> THEN <<>>
  ELSE Head(all_items) \o ExtractedSources(Tail(all_items))

AgreeInputs ==
  [fn : {"run_extraction"},
   items : Lists(AgreeTitles, MaxAgreeTitles) \ {<<>>},
   all_extracted_items : Lists({<<h>> : h \in AgreeHeadlines}, MaxAgreeRecords)]

\* what the worker finds missing in the chunk, and what the report says
ValidateAndReport ==
  /\ Called("run_extraction")
  /\ Returned([missing |-> FindMissingItems(pure_in[1].items,
                                            pure_in[1].all_extracted_items),
               report |-> FidelityCheck(pure_in[1].items,
                            ExtractedSources(pure_in[1].all_extracted_items))])

InitAgree == PureInit(AgreeInputs)
NextAgree == ValidateAndReport
SpecAgree == InitAgree /\ [][NextAgree]_vars

\* The end-to-end scenario: twelve items that chunk_data packs four to a
\* chunk; the service answers the first request for the third chunk with a
\* truncated payload and every other request with full valid JSON, one record
\* per item of the prompt.  What is left of the truncated payload is the
\* complete records of some of the chunk's items, got either by the repair
\* that closes the text before json.loads or, on a JSON error, by
\* salvage_json_items.  The pool runs every submitted worker.
ScenarioItems == 12
Truncated == {3}    \* the chunks whose first answer is truncated: the third

FullAnswer(chunk) == [n |-> Len(chunk), cov |-> Range(chunk), bad |-> FALSE]
PartAnswer(S) == [n |-> Cardinality(S), cov |-> S, bad |-> FALSE]

FirstOfThird(c) ==
  c \in Truncated /\ Len(stacks[c]) = 1 /\ Top(c).attempt = 0

InitScenario ==
  /\ PoolInit({FreeTable}, {NoUsage}) /\ available_keys = <<"k1", "k2">>
  /\ flat_items = [i \in 1..ScenarioItems |-> 6250]
  /\ chunks = <<>> /\ stacks = <<>> /\ futures = <<>> /\ req = <<>>
  /\ last_result = <<>>
  /\ all_extracted_items = NoRecs
  /\ collected = {}
  /\ pure_in = <<>> /\ pure_out = <<>>

NextScenario ==
  \/ RunExtraction
  \/ \E c \in DOMAIN stacks :
       /\ Sends(c) /\ ~FirstOfThird(c)
       /\ Parsed(c, FullAnswer(Top(c).chunk), FullAnswer(Top(c).chunk))
  \/ \E c \in DOMAIN stacks :
       /\ Sends(c) /\ FirstOfThird(c)
       /\ \E S \in SUBSET Range(Top(c).chunk) : Parsed(c, PartAnswer(S), PartAnswer(S))
  \/ \E c \in DOMAIN stacks :
       /\ Sends(c) /\ FirstOfThird(c)
       /\ \E S \in SUBSET Range(Top(c).chunk), keyword \in BOOLEAN :
            ParseError(c, keyword, PartAnswer(S))
  \/ \E c \in DOMAIN stacks : Residue(c)
  \/ \E c \in DOMAIN futures : Collect(c)

SpecScenario ==
  InitScenario /\ [][NextScenario]_vars /\ WF_vars(NextScenario)

\* ================================================================== claims

\* ------------------------------------------------------------------- C1
\* C1: under every interleaving of the worker threads' get_key, report_usage
\* and report_failure calls a credential is held by at most one caller: once
\* get_key has returned K, no get_key returns K again before report_usage(K) or
\* report_failure(K) was called for that checkout.  checked_out[K] counts the
\* checkouts of K not yet reported, so a second return of K shows as a count of 2.
C1_AtMostOneHolder == \A k \in Keys : checked_out[k] <= 1

\* The get_key calls of the two workers overlap: one worker entered get_key while
\* both keys were in the rotation and is about to pop, and meanwhile the other
\* worker's get_key has returned a key, which it now holds.
C1_OverlappingCheckout ==
  /\ ret.outcome = "send"
  /\ checked_out[ret.key] = 1
  /\ wk[ret.w].pc = "sent"
  /\ \E w \in Workers \ {ret.w} : th[w].pc = "pop" /\ th[w].limit = 2

\* ------------------------------------------------------------------- C2
\* C2: every key get_key returns has the tier its config requires: a free
\* config never obtains a paid key and a paid config never a free one, for
\* every content and order of the rotation.
C2_TierMatches ==
  ret.outcome = "send" => key_metadata[ret.key] = ResolveConfig(ret.config).tier

\* A paid config got its key out of a pool whose rotation has a free key at
\* its head.
C2_PaidPastFree ==
  /\ ret.outcome = "send"
  /\ ResolveConfig(ret.config).tier = "paid"
  /\ available_keys # <<>>
  /\ key_metadata[Head(available_keys)] = "free"

\* ------------------------------------------------------------------- C4
\* C4: get_key answers the fatal signal (no key, wait -1) exactly when
\* estimated_tokens is strictly greater than the config's tokens-per-minute
\* limit, and a fatal get_key checks out nothing: every key of the rotation is
\* still in it, and the caller holds none.
C4_FatalIffTooLarge ==
  [][ ret'.config # "-" =>
        /\ (ret'.wait = FATAL_WAIT) <=> (ret'.est > ResolveConfig(ret'.config).tpm)
        /\ ret'.wait = FATAL_WAIT =>
              /\ ret'.key = NoKey
              /\ available_keys' = available_keys
              /\ checked_out' = checked_out
              /\ wk'[ret'.w].pc = "idle" ]_vars

\* A request one token over the limit of its config was answered fatal, with
\* the rotation full.
C4_OneOverLimit ==
  /\ ret.wait = FATAL_WAIT
  /\ ret.est = ResolveConfig(ret.config).tpm + 1
  /\ Len(available_keys) >= 2

\* ------------------------------------------------------------------- C5
\* C5: generate_content sends a request only when get_key returned a key with
\* wait 0; otherwise it returns without sending and without holding a key:
\* wait -1 gives 'request too large', wait > 0 gives the rate-limited outcome
\* carrying the wait, no key with wait 0 gives 'no API keys available'.
C5_SendOnlyWithKey ==
  ret.config # "-" =>
    /\ (ret.outcome = "send") <=> (ret.key # NoKey /\ ret.wait = 0)
    /\ ret.outcome = "send" => wk[ret.w].pc = "sent" /\ wk[ret.w].key = ret.key
    /\ ret.outcome # "send" => wk[ret.w] = Idle /\ ret.key = NoKey
    /\ ret.wait = FATAL_WAIT => ret.outcome = "too_large"
    /\ ret.wait > 0 => ret.outcome = "rate_limited"
    /\ (ret.key = NoKey /\ ret.wait = 0) => ret.outcome = "no_keys"

\* generate_content returned rate-limited with the busy wait: every key of the
\* tier is checked out, the caller itself is back outside without one.
C5_RateLimitedReturn ==
  /\ ret.outcome = "rate_limited"
  /\ ret.wait = BUSY_WAIT
  /\ wk[ret.w] = Idle

\* ------------------------------------------ what the claims below speak of
\* The rotation a get_key call made now scans: the deque, then the keys whose
\* cooldown is over.
Scanned == available_keys \o Released(cooldown_keys, now)

\* The usage row of key k for the model of config c.
RowFor(k, c) == usage[<<k, ResolveConfig(c).model_id>>]

\* The row's minute window is still open now.
InWindow(row) == row.present /\ now - row.rpm_window_start < WINDOW

\* The row's daily count is at the limit of config c, today.
RpdSpent(row, c) ==
  row.present /\ row.last_used_day = TodayStr(now)
              /\ row.rpd_requests >= ResolveConfig(c).rpd

\* The row's minute window leaves room for a request of est tokens on config c.
MinuteRoom(row, c, est) ==
  \/ ~InWindow(row)
  \/ /\ row.rpm_requests < ResolveConfig(c).rpm
     /\ row.tpm_tokens + est <= ResolveConfig(c).tpm

C7_DeadNeverReturned == ret.outcome = "send" => ret.key \notin fatal_called

\* ------------------------------------------------------------------- C8
\* C8: report_usage(K, tokens, model) puts K at the tail of the rotation on
\* every call, whatever the outcome of its read and its write of the usage
\* store.  (generate_content answers success after report_usage returned.)
C8_AlwaysBackInRotation ==
  [][ ret'.outcome = "success" =>
        available_keys' = Append(available_keys, ret'.key) ]_vars

SpentRow == Row(1000, now, 1000000, 100000, TodayStr(now))

C10_ModelIsolation ==
  [][ /\ ret'.outcome = "success" =>
           /\ \A p \in DOMAIN usage :
                 p # <<ret'.key, ret'.model>> => usage'[p] = usage[p]
           /\ usage'[<<ret'.key, ret'.model>>] # usage[<<ret'.key, ret'.model>>]
      /\ ret'.config # "-" =>
           \A other \in {NoRow, SpentRow} :
             LET own == [p \in DOMAIN usage |->
                           IF p[2] = ret'.model THEN usage[p] ELSE other]
                 r == GetKey(available_keys, cooldown_keys,
                             [Ctx(ret'.config, ret'.est, TRUE) EXCEPT !.usg = own])
             IN  /\ r.key = ret'.key /\ r.wait = ret'.wait
                 /\ r.avail = available_keys' ]_vars

\* get_key returned a key for one model while the key's daily count for the
\* other model is spent.
C10_SpentOnOtherModel ==
  /\ ret.outcome = "send"
  /\ ret.config = "gemini-3-flash-free"
  /\ RpdSpent(usage[<<ret.key, "gemini-3-pro-preview">>], "gemini-3-pro-free")

\* ------------------------------------------------------------------ C11
\* C11: when the service answers with a status that is neither 200 nor 429, or
\* the request raises, generate_content returns a failure and leaves the
\* KeyManager as it was right after get_key: rotation, cooldown map, dead set
\* and usage rows are unchanged.
C11_ErrorTouchesNothing ==
  [][ ret'.outcome \in {"api_error", "transport_error"} =>
        /\ available_keys' = available_keys
        /\ cooldown_keys' = cooldown_keys
        /\ dead_keys' = dead_keys
        /\ usage' = usage
        /\ wk'[ret'.w] = Idle ]_vars

\* A request that raised: the worker is back outside, and the key it had been
\* given is where get_key left it, in neither the rotation nor the cooldown map.
C11_AfterTransportError ==
  /\ ret.outcome = "transport_error"
  /\ ret.key # NoKey
  /\ ret.key \notin SeqSet(available_keys)
  /\ ret.key \notin CdKeys(cooldown_keys)
  /\ checked_out[ret.key] = 1

\* ------------------------------------------------------------------ C12
\* C12: the usage row of (key, model) is updated on every attempt admitted for
\* the pair, whether it succeeds or fails (HTTP 429, another service error, an
\* empty or filtered response, a transport error).
C12_EveryAttemptCounted ==
  [][ ret'.outcome \in {"success", "http_429"} \cup SilentOutcomes =>
        usage'[<<ret'.key, ret'.model>>] # usage[<<ret'.key, ret'.model>>] ]_vars

\* C13: the worker returns success on the records of one attempt (parsed,
\* salvaged on a parse error, or salvaged after the loop) only when those
\* records cover at least 95% of the chunk's items, at every attempt 1..5.
C13_AcceptNeedsYield ==
  \A c \in DOMAIN last_result :
     (last_result[c].success /\ last_result[c].via \in {"parsed", "eager", "emergency"})
       => ~LowYield(last_result[c].chunk, last_result[c].items)

\* C14: once a worker has entered residual recovery, the records it kept for
\* the covered items are part of the orchestrator's aggregate after the
\* worker's result has been gathered, whether the recovery succeeded or failed.
C14_KeptInAggregate ==
  \A c \in collected : futures[c].kept \subseteq all_extracted_items.cov

\* C15: after a rate-limited answer to a request for a chunk, the next request
\* of that worker thread is for the same item list: the chunk is neither
\* narrowed nor bisected.
C15_RateLimitedSameChunk ==
  [][ \A c \in DOMAIN req :
        (req[c].answer = "rate_limited" /\ req'[c] # req[c])
          => req'[c].chunk = req[c].chunk ]_vars

\* C16: after a too-large answer the worker sends no further request, for the
\* chunk or a part of it, and the invocation that got the answer returns a
\* failed result.
C16_TooLargeFailsAtOnce ==
  [][ \A c \in DOMAIN req :
        req[c].answer = "too_large"
          => /\ req'[c] = req[c]
             /\ stacks'[c] # stacks[c] =>
                   (last_result'[c].via # "none" /\ ~last_result'[c].success) ]_vars

\* C17: no worker thread ends by raising: whatever the service answers, the
\* future of every chunk holds a (success, items, logs, calls) result.
C17_WorkerNeverRaises ==
  \A c \in DOMAIN futures : futures[c].status # "raised"

\* What the attempt >= 2 block works on, and whether its records match no
\* title of the chunk after the first attempt.
SalvagedSoFar(f) ==
  IF f.best_parsed_items.n > 0 THEN f.best_parsed_items ELSE f.last_raw_content

NothingCovered(f) ==
  /\ f.pc = "loop" /\ f.attempt = 1 /\ Len(f.chunk) >= 2
  /\ Range(f.chunk) \cap SalvagedSoFar(f).cov = {}

Half1(chunk) == SubSeq(chunk, 1, Len(chunk) \div 2)
Half2(chunk) == SubSeq(chunk, (Len(chunk) \div 2) + 1, Len(chunk))

\* the invocation on top of the stack of c returns in the step
Returns(c) ==
  /\ last_result'[c].via # "none"
  /\ last_result'[c].chunk = Top(c).chunk
  /\ stacks'[c] # stacks[c]

\* The bisection rule, for every answer of the service (wellFormed FALSE) or
\* for the answers whose records find_missing_items can read (TRUE).
BisectRule(wellFormed) ==
      \A c \in DOMAIN stacks :
        (stacks[c] # <<>> /\ stacks'[c] # stacks[c]) =>
          LET f == Top(c)
              n == Len(stacks[c])
          IN  /\ (NothingCovered(f) /\ (wellFormed => ~Raises(SalvagedSoFar(f)))) =>
                   /\ Half1(f.chunk) # <<>> /\ Half2(f.chunk) # <<>>
                   /\ Half1(f.chunk) \o Half2(f.chunk) = f.chunk
                   /\ Len(stacks'[c]) = n + 1
                   /\ stacks'[c][n].chunk = f.chunk /\ stacks'[c][n].pc = "left"
                   /\ stacks'[c][n + 1] = Frame(Half1(f.chunk))
                   /\ req'[c] = req[c]
              /\ (n >= 2 /\ stacks[c][n - 1].pc = "left" /\ Returns(c)) =>
                   /\ Len(stacks'[c]) = n
                   /\ stacks'[c][n - 1].pc = "right"
                   /\ stacks'[c][n - 1].res_l.success = last_result'[c].success
                   /\ stacks'[c][n] = Frame(Half2(stacks[c][n - 1].chunk))
              /\ (n >= 2 /\ stacks[c][n - 1].pc = "right" /\ Returns(c)) =>
                   LET both == stacks[c][n - 1].res_l.success /\ last_result'[c].success
                   IN  /\ n = 2 => (stacks'[c] = <<>> /\ futures'[c].status = "done"
                                     /\ futures'[c].success = both)
                       /\ (n > 2 /\ stacks[c][n - 2].pc = "left") =>
                             stacks'[c][n - 2].res_l.success = both
              /\ (f.pc = "loop" /\ Len(f.chunk) = 1) =>
                   /\ req'[c] # req[c] => req'[c].chunk = f.chunk
                   /\ \/ /\ Len(stacks'[c]) = n
                         /\ stacks'[c][n].chunk = f.chunk /\ stacks'[c][n].pc = "loop"
                         /\ stacks'[c][n].attempt = f.attempt + 1
                         /\ f.attempt < MAX_ATTEMPTS
                         /\ \A i \in 1..(n - 1) : stacks'[c][i] = stacks[c][i]
                      \/ /\ Returns(c)
                         /\ ~last_result'[c].success =>
                               last_result'[c].attempt = MAX_ATTEMPTS
                      \/ /\ futures'[c].status = "raised"
                         /\ f.attempt = MAX_ATTEMPTS

\* C18: a chunk of n >= 2 items none of which is covered after the first
\* attempt is bisected: the worker runs on chunk[:n//2], then on chunk[n//2:],
\* two non-empty lists that together are the chunk in its order, and the
\* bisecting invocation reports success iff both halves did.  A chunk of one
\* item is never split or narrowed: each step of its invocation is one more
\* request for the same item or the end of the invocation, and it ends
\* without success only at the attempt cap.
C18_BisectOnZeroMatch == [][BisectRule(FALSE)]_vars

\* The same rule holds of the answers whose records find_missing_items reads
\* without raising.
BisectWhenWellFormed == [][BisectRule(TRUE)]_vars

\* A chunk of three items was bisected, the worker on its first item reported
\* success, and the worker on its last two items, bisected in turn, is at work
\* on the second item.
BisectedTwice ==
  \E c \in DOMAIN stacks :
     /\ Len(stacks[c]) = 3
     /\ stacks[c][1].chunk = <<1, 2, 3>> /\ stacks[c][1].pc = "right"
     /\ stacks[c][1].res_l.success
     /\ stacks[c][2].chunk = <<2, 3>> /\ stacks[c][2].pc = "left"
     /\ stacks[c][3].chunk = <<2>> /\ stacks[c][3].attempt = 3

\* The parts of the scenario's expected result.
OthersAcceptedAtOnce ==
  \A c \in DOMAIN futures \ Truncated :
     futures[c].status = "done" =>
       /\ futures[c].success
       /\ last_result[c].via = "parsed" /\ last_result[c].attempt = 1
       /\ last_result[c].chunk = chunks[c]

Unmatched(chunk, recs) == SelectSeq(chunk, LAMBDA item : item \notin recs.cov)

RecoveryAsksUnmatchedOnly ==
  \A c \in DOMAIN stacks \cap Truncated :
     (Len(stacks[c]) >= 2 /\ stacks[c][1].pc = "residual") =>
       /\ stacks[c][2].chunk = Unmatched(chunks[c], stacks[c][1].salvaged_so_far)
       /\ req[c].chunk \in {chunks[c], stacks[c][2].chunk}

AllCovered ==
  (chunks # <<>> /\ collected = DOMAIN chunks) =>
     all_extracted_items.cov = 1..Len(flat_items)

Gathered == chunks # <<>> /\ collected = DOMAIN chunks

\* the first answer for chunk c left records matching some of the chunk's
\* titles and not all of them
SomeMatched(c) ==
  /\ Len(stacks[c]) = 1 /\ stacks[c][1].attempt = 1
  /\ SalvagedSoFar(stacks[c][1]).cov \notin {{}, Range(chunks[c])}

\* C19: in the scenario every chunk but the third is accepted on its first
\* attempt; the third chunk, whose truncated payload leaves complete records
\* for some of its titles and not for all, enters residual recovery, and the
\* request of that recovery lists only the titles the kept records do not
\* match; every result is gathered in the end, and the aggregate then covers
\* every title.
C19_Scenario ==
  /\ [](OthersAcceptedAtOnce /\ RecoveryAsksUnmatchedOnly /\ AllCovered)
  /\ <>Gathered
  /\ [][ \A c \in DOMAIN stacks \cap Truncated :
           (SomeMatched(c) /\ stacks'[c] # stacks[c]) =>
             /\ Len(stacks'[c]) = 2
             /\ stacks'[c][1].pc = "residual"
             /\ stacks'[c][1].salvaged_so_far = SalvagedSoFar(stacks[c][1])
             /\ req'[c] = req[c] ]_vars

\* All results gathered, the third chunk's made of two kept records and the
\* two records of its residual recovery.
C19_RecoveredByResidual ==
  /\ Gathered
  /\ \E c \in Truncated :
       /\ futures[c].success /\ Cardinality(futures[c].kept) = 2
       /\ futures[c].items.n = 4
  /\ all_extracted_items.cov = 1..ScenarioItems

RECURSIVE Flatten(_)
Flatten(lists) ==
  IF lists = <<>> THEN <<>> ELSE Head(lists) \o Flatten(Tail(lists))

RECURSIVE SumEst(_)
SumEst(chunk) ==
  IF chunk = <<>> THEN 0 ELSE EstTok(flat_items[Head(chunk)]) + SumEst(Tail(chunk))

\* C20: chunk_data returns non-empty chunks only; their concatenation, in
\* order, is the item list it was given after slicing, no item dropped,
\* doubled or moved; and a chunk of two or more items has a summed token
\* estimate of at most max_tokens.
C20_ChunksPartitionWithinBudget ==
  chunks # <<>> =>
    /\ \A c \in DOMAIN chunks : chunks[c] # <<>>
    /\ Flatten(chunks) = [i \in 1..Len(flat_items) |-> i]
    /\ \A c \in DOMAIN chunks :
         Len(chunks[c]) >= 2 => SumEst(chunks[c]) <= MAX_TOKENS

\* chunk_data has returned a chunk of one item over the budget, first in the
\* list, and a chunk of two items that fills the budget to the last token.
C20_OversizedAloneAndExactFit ==
  /\ Len(chunks) >= 2
  /\ Len(chunks[1]) = 1 /\ SumEst(chunks[1]) > MAX_TOKENS
  /\ \E c \in DOMAIN chunks : Len(chunks[c]) = 2 /\ SumEst(chunks[c]) = MAX_TOKENS

\* C21: chunk_data replaces an item whose body is longer than
\* limit = int(max_tokens * 2.5) characters by n = ceil(len(body) / limit)
\* items titled '[Part k/n] title', k = 1..n in order, each body at most limit
\* characters long, the bodies together being the original body; an item
\* within the limit passes through unchanged.
C21_SlicingLosesNothing ==
  (pure_in # <<>> /\ pure_in[1].fn = "chunk_data" /\ pure_out # <<>>) =>
    LET item == pure_in[1].item
        limit == LimitChars(pure_in[1].max_tokens)
        n == (Len(item.body) + limit - 1) \div limit
        out == pure_out[1].items
    IN  IF Len(item.body) > limit
        THEN /\ Len(out) = n
             /\ \A k \in 1..n :
                  /\ out[k].title = <<"Part", k, n, item.title[1]>>
                  /\ Len(out[k].body) <= limit
             /\ Flatten([k \in 1..n |-> out[k].body]) = item.body
        ELSE out = <<item>>

\* The same of the chunk_data of main.py and streamlit_app.py alone.
SlicingLosesNothingInMain ==
  (pure_out # <<>> /\ pure_out[1].by = "main") => C21_SlicingLosesNothing

\* covered as the rule has it: for some declared headline that normalisation
\* leaves non-empty, 85% of the title's words are among the headline's, or one
\* normalised text is part of the other
CoveredByRule(title, salvaged_items) ==
  LET t == NormalizeText(title)
  IN  /\ t # <<>>
      /\ \E r \in DOMAIN salvaged_items : \E h \in DOMAIN salvaged_items[r] :
           LET e == NormalizeText(salvaged_items[r][h])
           IN  /\ e # <<>>
               /\ \/ Cardinality(Split(t) \cap Split(e)) * 100
                        >= 85 * Cardinality(Split(t))
                  \/ IsSubstring(t, e)
                  \/ IsSubstring(e, t)

\* C22: find_missing_items returns exactly the items of the chunk that are not
\* covered, an item being covered iff for some declared headline at least 85%
\* of the title's words occur among the headline's words or one normalised
\* text is a substring of the other.
C22_MissingIsNotCovered ==
  (pure_in # <<>> /\ pure_in[1].fn = "find_missing_items" /\ pure_out # <<>>) =>
    pure_out[1] = SelectSeq(pure_in[1].chunk,
                    LAMBDA title : ~CoveredByRule(title, pure_in[1].salvaged_items))

SalvageReturned ==
  pure_in # <<>> /\ pure_in[1].fn = "salvage_json_items" /\ pure_out # <<>>

\* the brace count of text[i..j]: markers open, closing braces close
Depth(text, i, j) ==
  Cardinality({p \in i..j : text[p] = "M"}) - Cardinality({p \in i..j : text[p] = "}"})

\* text[i..j] is the brace-balanced span of the marker at i
BalancedSpan(text, i, j) ==
  /\ text[i] = "M"
  /\ j \in i..Len(text)
  /\ Depth(text, i, j) = 0
  /\ \A p \in i..(j - 1) : Depth(text, i, p) > 0

\* the markers whose balanced span parses as an object
GoodMarkers(text) ==
  {i \in 1..Len(text) :
     \E j \in i..Len(text) : BalancedSpan(text, i, j) /\ JsonLoads(SubSeq(text, i, j)).ok}

C24_FragmentRecovered ==
  (SalvageReturned /\ pure_in[1].text = COMPLETE \o CUT_OFF) =>
    LET out == pure_out[1].items
    IN  /\ Len(out) = 2
        /\ out[1] = JsonLoads(COMPLETE).obj
        /\ out[2] = <<<<CUT_OFF[2]>>, <<"[RECOVERED FRAGMENT]">>, <<"is_truncated">>>>

EstimateReturned ==
  pure_in # <<>> /\ pure_in[1].fn = "estimate_tokens" /\ pure_out # <<>>

FidelityReturned ==
  pure_in # <<>> /\ pure_in[1].fn = "fidelity_check" /\ pure_out # <<>>

\* C26: the final report partitions the source items: preserved plus lost is
\* the number of source items, and the fidelity percentage is preserved over
\* the number of source items, also when several items have the same title.
C26_ReportPartitionsItems ==
  FidelityReturned =>
    LET n == Len(pure_in[1].original_headlines)
        r == pure_out[1]
    IN  /\ Len(r.preserved_titles) + Len(r.lost_titles) = n
        /\ n > 0 => r.fidelity_score[1] * n = Len(r.preserved_titles) * 100 * r.fidelity_score[2]

\* the partition holds whenever no two titles normalise to the same text
PartitionOfDistinctTitles ==
  (/\ FidelityReturned
   /\ \A i, j \in DOMAIN pure_in[1].original_headlines :
        NormalizeText(pure_in[1].original_headlines[i])
          = NormalizeText(pure_in[1].original_headlines[j]) => i = j)
    => C26_ReportPartitionsItems

\* C27: no outcome of generate_content leaks a credential: when a call that
\* was given the key K returns (success, HTTP 429, another error, empty or
\* filtered content, unparsable content, transport exception), K is in the
\* rotation, in the cooldown map or in the dead set.
C27_NoOutcomeLeaksKey ==
  [][ \A w \in DOMAIN wk :
        (wk[w].pc = "sent" /\ wk'[w] = Idle) =>
          wk[w].key \in SeqSet(available_keys') \cup CdKeys(cooldown_keys') \cup dead_keys'
    ]_vars

\* the returns that do give the key back: success whose usage row was written,
\* and HTTP 429
KeyBackAfterReport ==
  [][ \A w \in DOMAIN wk :
        (/\ wk[w].pc = "sent" /\ wk'[w] = Idle
         /\ \/ ret'.outcome = "http_429"
            \/ ret'.outcome = "success" /\ usage' # usage) =>
          wk[w].key \in SeqSet(available_keys') \cup CdKeys(cooldown_keys')
    ]_vars

\* the calls of generate_content made so far by the invocation at depth i of
\* the stack of c and by the invocations it has called
RECURSIVE CallsFrom(_, _)
CallsFrom(stack, i) ==
  IF i > Len(stack) THEN 0
  ELSE stack[i].api_call_count
         + (IF stack[i].pc = "right" THEN stack[i].res_l.calls ELSE 0)
         + CallsFrom(stack, i + 1)

CallsBounded ==
  \A c \in DOMAIN stacks :
    /\ \A i \in DOMAIN stacks[c] :
         \* its own requests
         /\ stacks[c][i].api_call_count <= MAX_ATTEMPTS
         \* its requests and those of its sub-workers
         /\ CallsFrom(stacks[c], i) <= 6 * Len(stacks[c][i].chunk) - 1
         \* the invocation it waits for has fewer items, and at least one
         /\ i > 1 => /\ stacks[c][i].chunk # <<>>
                     /\ Len(stacks[c][i].chunk) < Len(stacks[c][i - 1].chunk)
    /\ futures[c].calls <= 6 * Len(chunks[c]) - 1

AllReturned ==
  chunks # <<>> /\ \A c \in DOMAIN futures : futures[c].status # "pending"

\* C28: every worker invocation terminates; it sends at most 5 requests for
\* its own chunk; every sub-worker it calls gets a strictly smaller, non-empty
\* list of items; and the calls of generate_content for a chunk of n items are
\* at most 6n - 1 in all.
C28_WorkerTerminatesWithinBudget == []CallsBounded /\ <>AllReturned

\* a chunk of two items that took the 11 calls: one of its own, five for each
\* half
C28_ElevenCallsForTwo ==
  \E c \in DOMAIN futures :
    /\ Len(chunks[c]) = 2
    /\ futures[c].status = "done"
    /\ futures[c].calls = 11

\* C29: after a rate-limited answer with wait_seconds = w > 0 the worker does
\* not send its next request before w seconds have passed: the time it lets
\* pass after the answer is at least w.
C29_WaitsOutTheQuota ==
  \A c \in DOMAIN req :
    (req[c].answer = "rate_limited" /\ req[c].wait_seconds > 0) =>
      req[c].slept >= req[c].wait_seconds

\* the worker never lets less than one second pass after a rate-limited answer
SleepsOneSecond ==
  \A c \in DOMAIN req : req[c].answer = "rate_limited" => req[c].slept >= 1

\* the tier-matching credentials that are not dead, for the configuration cfg
MatchingKeys(cfg) == {k \in Keys : key_metadata[k] = cfg.tier /\ k \notin dead_keys}

\* the remaining waits of those credentials: what is left of a cooldown, and
\* the quota wait of a credential of the rotation that is in no cooldown
RemainingWaits(cfg, est, readOk) ==
  {CdTime(cooldown_keys, k) - now :
     k \in {k \in MatchingKeys(cfg) \cap CdKeys(cooldown_keys) :
              now < CdTime(cooldown_keys, k)}}
  \cup
  {CheckKeyLimits(usage[<<k, cfg.model_id>>], cfg.rpm, cfg.tpm, cfg.rpd, est, now, readOk) :
     k \in {k \in MatchingKeys(cfg) \cap SeqSet(available_keys) :
              ~(k \in CdKeys(cooldown_keys) /\ now < CdTime(cooldown_keys, k))}}

\* C30: when get_key returns no key for a request that is not fatal, the wait
\* it reports is the smallest remaining wait over all tier-matching, non-dead
\* credentials: the minimum of the remaining cooldowns and the quota waits.
C30_ReportedWaitIsSmallest ==
  [][ (/\ calls' = calls + 1
       /\ ret'.key = NoKey
       /\ ret'.outcome \in {"rate_limited", "no_keys"}) =>
        \E readOk \in BOOLEAN :
          LET waits == RemainingWaits(ResolveConfig(ret'.config), ret'.est, readOk)
          IN  waits # {} => ret'.wait = SetMin(waits)
    ]_vars

\* the reported wait is the smallest when no matching credential is in a
\* cooldown, or none is in the rotation
SmallestWithinOnePlace ==
  [][ (/\ calls' = calls + 1
       /\ ret'.key = NoKey
       /\ ret'.outcome \in {"rate_limited", "no_keys"}
       /\ LET m == MatchingKeys(ResolveConfig(ret'.config))
          IN  \/ m \cap SeqSet(available_keys) = {}
              \/ \A k \in m \cap CdKeys(cooldown_keys) : now >= CdTime(cooldown_keys, k)) =>
        \E readOk \in BOOLEAN :
          LET waits == RemainingWaits(ResolveConfig(ret'.config), ret'.est, readOk)
          IN  waits # {} => ret'.wait = SetMin(waits)
    ]_vars

\* the step of c is a request whose answer did not parse, after which the
\* invocation goes round its loop again
ContinuesAfterParseError(c) ==
  /\ Sends(c)
  /\ req'[c].answer = "parse_error"
  /\ Len(stacks'[c]) = Len(stacks[c])
  /\ stacks'[c][Len(stacks'[c])].chunk = Top(c).chunk
  /\ stacks'[c][Len(stacks'[c])].attempt = Top(c).attempt + 1

\* C31: a successful response is parsed as returned, then repaired and parsed
\* again, and whenever that fails too, for any kind of parse error, the
\* records of salvage_json_items are the candidate that is validated: the
\* worker goes on to another attempt after a parse error only if there is
\* nothing to salvage or the salvaged records fail the yield check.
C31_SalvageOnAnyParseError ==
  [][ \A c \in DOMAIN stacks :
        ContinuesAfterParseError(c) =>
          LET g == stacks'[c][Len(stacks'[c])]
              salv == g.last_raw_content
          IN  (salv.n > 0 /\ ~Raises(salv)) => Retries(g.chunk, salv, g.attempt)
    ]_vars

\* k may be handed out for cfg now: tier-matching, not dead, in no running
\* cooldown, and within the quota of its usage row
Eligible(k, cfg, est, readOk) ==
  /\ ~TierMismatch(cfg.tier, key_metadata[k])
  /\ k \notin dead_keys
  /\ ~(k \in CdKeys(cooldown_keys) /\ now < CdTime(cooldown_keys, k))
  /\ CheckKeyLimits(usage[<<k, cfg.model_id>>], cfg.rpm, cfg.tpm, cfg.rpd, est, now,
                    readOk) = 0

\* a get_key call on the rotation rot: the key returned is the first eligible
\* one of rot and the others stay as they were; without a key rot is left as
\* it was
FifoOn(rot) ==
  \E readOk \in BOOLEAN :
    LET cfg == ResolveConfig(ret'.config)
        ok == {i \in 1..Len(rot) : Eligible(rot[i], cfg, ret'.est, readOk)}
    IN  IF ret'.key # NoKey
        THEN /\ ok # {}
             /\ ret'.key = rot[SetMin(ok)]
             /\ available_keys' = SubSeq(rot, 1, SetMin(ok) - 1)
                                    \o SubSeq(rot, SetMin(ok) + 1, Len(rot))
        ELSE available_keys' = rot

GetKeyReturns == calls' = calls + 1 /\ ret'.outcome # "too_large"

Released1(w) == wk[w].pc = "sent" /\ wk'[w] = Idle /\ ret'.outcome = "success"

\* C32: get_key selects in FIFO order: it returns the first credential of the
\* rotation that is tier-matching, healthy and within quota, the credentials
\* it skipped keep their places in front, a call without a key leaves the
\* rotation as it was before the call, and a released credential re-enters at
\* the tail.
C32_FifoRotation ==
  [][ /\ GetKeyReturns => FifoOn(available_keys)
      /\ \A w \in DOMAIN wk :
           Released1(w) => available_keys' = Append(available_keys, wk[w].key)
    ]_vars

\* the same with the rotation taken after the reclaim of the expired cooldowns
\* and with a release whose usage row was written
FifoAfterReclaim ==
  [][ /\ GetKeyReturns => FifoOn(ReclaimKeys(available_keys, cooldown_keys, now).avail)
      /\ \A w \in DOMAIN wk :
           (Released1(w) /\ usage' # usage) =>
             available_keys' = Append(available_keys, wk[w].key)
    ]_vars

\* C33: on a successful response generate_content calls report_usage exactly
\* once, with tokens = estimate_tokens(prompt) + estimate_tokens(response
\* text): the output is estimated with the same function as the input.
C33_OutputEstimatedAsInput ==
  (pure_in # <<>> /\ pure_in[1].fn = "generate_content" /\ pure_out # <<>>) =>
    pure_out[1].report_usage =
      <<EstimateTokens(pure_in[1].prompt_len) + EstimateTokens(pure_in[1].text_len)>>

\* the configurations under which the key k can be admitted for model_id
ConfigsOf(k, model_id) ==
  {ResolveConfig(c) : c \in {c \in ConfigIds :
     /\ ResolveConfig(c).model_id = model_id
     /\ ResolveConfig(c).tier = key_metadata[k]}}

\* C34: in every reachable state the requests recorded in the window of a
\* (key, model) pair are at most the requests-per-minute limit of its config.
C34_RequestsWithinRpm ==
  \A k \in Keys, model_id \in ModelIds :
    usage[<<k, model_id>>].present =>
      \A cfg \in ConfigsOf(k, model_id) : usage[<<k, model_id>>].rpm_requests <= cfg.rpm

\* C35: in every reachable state the tokens recorded in the window of a
\* (key, model) pair are at most the tokens-per-minute limit of its config.
C35_TokensWithinTpm ==
  \A k \in Keys, model_id \in ModelIds :
    usage[<<k, model_id>>].present =>
      \A cfg \in ConfigsOf(k, model_id) : usage[<<k, model_id>>].tpm_tokens <= cfg.tpm

\* the step is the write of worker w's report_usage
ReportWrites(w) == wk[w].pc = "selected" /\ wk'[w].pc = "idle"

\* what rpd_requests of a row says about the day of time t
RequestsToday(row, t) ==
  IF row.present /\ row.last_used_day = TodayStr(t) THEN row.rpd_requests ELSE 0

ReturnsNoKey(w) ==
  /\ th[w].pc # "out" /\ th'[w].pc = "out"
  /\ ret'.key = NoKey /\ ret'.outcome # "too_large"

\* C37: also with several threads in get_key, a call returns no key only if no
\* eligible credential exists at that moment: none that matches the tier, is
\* not checked out, not cooling down, not dead and within quota.
C37_KeyWheneverEligible ==
  [][ \A w \in Workers : ReturnsNoKey(w) =>
        ~\E k \in Keys :
           /\ checked_out[k] = 0
           /\ Eligible(k, ResolveConfig(th[w].config), th[w].est, TRUE)
    ]_vars

\* The same with the eligible credential in the shared rotation at the moment
\* the call returns.
KeyWheneverEligibleInRotation ==
  [][ \A w \in Workers : ReturnsNoKey(w) =>
        ~\E k \in SeqSet(available_keys) :
           /\ checked_out[k] = 0
           /\ Eligible(k, ResolveConfig(th[w].config), th[w].est, TRUE)
    ]_vars

\* C38: after any interleaving of get_key, report_usage, report_failure and
\* the cooldown reclaim, each credential is at most once in available_keys, a
\* credential that is checked out is not in available_keys, and a credential
\* in the cooldown map is not in available_keys.
C38_RotationHoldsEachKeyOnce ==
  /\ \A i, j \in 1..Len(available_keys) : available_keys[i] = available_keys[j] => i = j
  /\ \A k \in Keys : checked_out[k] > 0 => k \notin SeqSet(available_keys)
  /\ \A k \in CdKeys(cooldown_keys) : k \notin SeqSet(available_keys)

\* one key is back in the rotation after a penalty, reclaimed by a get_key
\* call that is still running, while the other key is held
C38_ReclaimedWhileOtherHeld ==
  \E k1, k2 \in Keys :
    /\ k1 # k2
    /\ failed_at[k1] >= 0 /\ k1 \in SeqSet(available_keys)
    /\ checked_out[k2] = 1
    /\ \E w \in Workers : th[w].pc \in {"reclaim", "test"}

\* C39: every source item that find_missing_items counts as covered by the
\* aggregated records is counted as preserved by the final fidelity check, and
\* a job whose items are all covered reports 100% fidelity and no lost title.
C39_ReportAgreesWithWorker ==
  (pure_out # <<>> /\ pure_in[1].fn = "run_extraction") =>
    LET items == pure_in[1].items
        missing == pure_out[1].missing
        report == pure_out[1].report
    IN  /\ \A i \in DOMAIN items :
             items[i] \notin SeqSet(missing) =>
               /\ items[i] \notin SeqSet(report.lost_titles)
               /\ items[i] \in SeqSet(report.preserved_titles)
        /\ missing = <<>> =>
             /\ report.fidelity_score[1] = 100 * report.fidelity_score[2]
             /\ report.lost_titles = <<>>

\* The first half on jobs whose titles differ after normalisation (the dict
\* of the fidelity check then holds every title).
CoveredIsPreservedOnDistinctTitles ==
  (/\ pure_out # <<>> /\ pure_in[1].fn = "run_extraction"
   /\ \A i, j \in DOMAIN pure_in[1].items :
        NormalizeText(pure_in[1].items[i]) = NormalizeText(pure_in[1].items[j]) => i = j) =>
    \A i \in DOMAIN pure_in[1].items :
      pure_in[1].items[i] \notin SeqSet(pure_out[1].missing) =>
        pure_in[1].items[i] \in SeqSet(pure_out[1].report.preserved_titles)

====
